---- MODULE Spec2Model ----
(***************************************************************************)
(* Model of the request-time access-control and security-validation layer  *)
(* of agency-starter-kit: the Next.js middleware (src/middleware.ts), the  *)
(* SSRF guard (src/lib/security/ssrf.ts), the upload validator, the safe   *)
(* name generator and the filename sanitizer                               *)
(* (src/lib/security/file-upload.ts), the output encoders                  *)
(* (src/lib/security/escape.ts), the health endpoint                       *)
(* (src/app/api/health/route.ts) and the user hooks over UserService       *)
(* (src/hooks/useUser.ts).                                                 *)
(*                                                                         *)
(* JavaScript strings are modelled as sequences of one-character strings,  *)
(* so that startsWith, includes, toLowerCase, the regular expressions and  *)
(* the URL serialisation are computed character by character.              *)
(***************************************************************************)
EXTENDS Integers, Sequences, FiniteSets, TLC

VARIABLES
    pc,             \* middleware: where the single in-flight request is
    request,        \* middleware: NextRequest (pathname, cookies)
    response,       \* middleware: the local `response` (let, line 21)
    outcome,        \* middleware: what the middleware call produced
    invoked,        \* middleware: times middleware() ran for this request
    setAllCalls,    \* middleware: times cookies.setAll ran for this request
    handlerReached, \* middleware: the route handler ran for this request
    getUserResult,  \* middleware: how supabase.auth.getUser() ended
    ssrfUrlString,  \* ssrf: the argument of validateExternalUrl
    ssrfUrl,        \* ssrf: the local `url`, new URL(urlString)
    ssrfResult,     \* ssrf: what validateExternalUrl did with it
    ssrfInternal,   \* ssrf: what isInternalUrl returned, "none" when not called
    uploadFile,     \* upload: the File given to validateFileUpload
    uploadResult,   \* upload: what validateFileUpload did with it
    uploadBytesRead,\* upload: file.slice(0, 8).arrayBuffer() was awaited (line 49)
    originalName,   \* generateSafeFilename: the argument of the latest call
    safeName,       \* generateSafeFilename: what the latest call returned
    issuedUuids,    \* crypto.randomUUID: the identifiers handed out so far
    safeNames,      \* generateSafeFilename: what each call so far returned
    filename,       \* sanitizeFilename: the argument of the latest call
    safe,           \* sanitizeFilename: what the latest call returned
    sanitized,      \* sanitizeFilename: a call has returned to its caller
    encoder,        \* escape.ts: the function called, "none" between calls
    str,            \* escape.ts: its argument
    hasWindow,      \* escape.ts: typeof window !== "undefined" in this runtime
    hasCssEscape,   \* escape.ts: typeof CSS !== "undefined" && CSS.escape
    encoded,        \* escape.ts: the string the call returned
    thrown,         \* escape.ts: the error the call threw, "none" if it returned
    inFlight,       \* concurrent middleware: where each invocation is
    bindings,       \* concurrent middleware: the `response` binding of each invocation
    arguments,      \* concurrent middleware: the NextRequest of each invocation
    setAllLog,      \* concurrent middleware: the cookiesToSet of each setAll call
    resolved,       \* concurrent middleware: how getUser() ended for each invocation
    returned,       \* concurrent middleware: what each invocation returned
    healthPc,       \* health route: where the GET handler is
    checks,         \* health route: the local `checks` (line 12)
    dbError,        \* health route: the error of the database query (line 25)
    authError,      \* health route: the error of getSession (line 32)
    caught,         \* health route: what the catch clause caught (line 45)
    healthResponse, \* health route: the NextResponse.json the handler returned
    hook,           \* useUser.ts: the hook in use, "none" when none is mounted
    hookPc,         \* useUser.ts: where its queryFn / mutationFn is
    variables,      \* useUser.ts: the userId and updates the hook was given
    reply,          \* user.service: the { data, error } the backend resolved with
    apiResponse,    \* useUser.ts: the ApiResponse the service returned (lines 23, 41, 67)
    query,          \* useUser.ts: status, data and error the hook reports
    failureCount,   \* useUser.ts: failed attempts of the query so far
    fetchCount,     \* useUser.ts: calls of the service made for this hook
    invalidated,    \* useUser.ts: the query keys given to invalidateQueries
    navPc,          \* a navigation: idle, requesting, passed or error
    navPath,        \* the pathname of the request now made
    navUser,        \* whether the session of the navigation has a user
    navHops         \* redirects followed so far

vars == <<pc, request, response, outcome, invoked, setAllCalls, handlerReached,
          getUserResult, ssrfUrlString, ssrfUrl, ssrfResult, ssrfInternal, uploadFile, uploadResult,
          uploadBytesRead, originalName, safeName, issuedUuids, safeNames,
          filename, safe, sanitized, encoder, str, hasWindow, hasCssEscape, encoded,
          thrown,
          inFlight, bindings, arguments, setAllLog, resolved, returned,
          healthPc, checks, dbError, authError, caught, healthResponse,
          hook, hookPc, variables, reply, apiResponse, query, failureCount, fetchCount, invalidated,
          navPc, navPath, navUser, navHops>>

guardVars == <<pc, request, response, outcome, invoked, setAllCalls, handlerReached,
               getUserResult>>
ssrfVars == <<ssrfUrlString, ssrfUrl, ssrfResult, ssrfInternal>>
uploadVars == <<uploadFile, uploadResult, uploadBytesRead>>
safeNameVars == <<originalName, safeName, issuedUuids, safeNames>>
sanitizeVars == <<filename, safe, sanitized>>
encoderVars == <<encoder, str, hasWindow, hasCssEscape, encoded, thrown>>
concurrentVars == <<inFlight, bindings, arguments, setAllLog, resolved, returned>>
healthVars == <<healthPc, checks, dbError, authError, caught, healthResponse>>
userVars == <<hook, hookPc, variables, reply, apiResponse, query, failureCount, fetchCount, invalidated>>
followVars == <<navPc, navPath, navUser, navHops>>

-----------------------------------------------------------------------------
(* Strings as character sequences *)

Chars(s) == [i \in 1..Len(s) |-> SubSeq(s, i, i)]

StartsWith(s, p) == Len(s) >= Len(p) /\ SubSeq(s, 1, Len(p)) = p

EndsWith(s, p) == Len(s) >= Len(p) /\ SubSeq(s, Len(s) - Len(p) + 1, Len(s)) = p

Includes(s, sub) ==
    \E i \in 1..(Len(s) - Len(sub) + 1) : SubSeq(s, i, i + Len(sub) - 1) = sub

UpperLetters == Chars("ABCDEFGHIJKLMNOPQRSTUVWXYZ")
LowerLetters == Chars("abcdefghijklmnopqrstuvwxyz")
Digits == Chars("0123456789")

Range(s) == {s[i] : i \in 1..Len(s)}

IndexIn(c, s) == CHOOSE i \in 1..Len(s) : s[i] = c

LowerChar(c) == IF c \in Range(UpperLetters) THEN LowerLetters[IndexIn(c, UpperLetters)] ELSE c

ToLowerCase(s) == [i \in 1..Len(s) |-> LowerChar(s[i])]

IsAlpha(c) == c \in Range(UpperLetters) \cup Range(LowerLetters)
IsDigit(c) == c \in Range(Digits)

RECURSIVE Concat(_)
Concat(ss) == IF ss = <<>> THEN <<>> ELSE Head(ss) \o Concat(Tail(ss))

-----------------------------------------------------------------------------
(* src/middleware.ts *)

PROTECTED_ROUTES == {Chars("/dashboard"), Chars("/settings"), Chars("/admin")}

AUTH_ROUTES == {Chars("/login"), Chars("/signup")}

\* The extensions of config.matcher's last alternative (line 90).
MatcherExtensions ==
    {Chars("svg"), Chars("png"), Chars("jpg"), Chars("jpeg"), Chars("gif"), Chars("webp")}

\* "favicon.ico" inside the matcher is a regular expression: its dot matches
\* any character.
MatchesFaviconPattern(rest) ==
    /\ Len(rest) >= 11
    /\ SubSeq(rest, 1, 7) = Chars("favicon")
    /\ SubSeq(rest, 9, 11) = Chars("ico")

\* config.matcher (lines 81-92):
\*   /((?!_next/static|_next/image|favicon.ico|.*\.(?:svg|png|jpg|jpeg|gif|webp)$).*)
\* The framework runs the middleware only for the paths this matches.
MatcherMatches(pathname) ==
    /\ Len(pathname) >= 1
    /\ pathname[1] = "/"
    /\ LET rest == Tail(pathname) IN
        /\ ~StartsWith(rest, Chars("_next/static"))
        /\ ~StartsWith(rest, Chars("_next/image"))
        /\ ~MatchesFaviconPattern(rest)
        /\ ~\E e \in MatcherExtensions : EndsWith(rest, <<".">> \o e)

isProtectedRoute(pathname) == \E route \in PROTECTED_ROUTES : StartsWith(pathname, route)

\* Faulty variant of isAuthRoute: compares with === instead of startsWith.
isAuthRoute_Exact(pathname) == pathname \in AUTH_ROUTES

isAuthRoute(pathname) == \E route \in AUTH_ROUTES : StartsWith(pathname, route)

\* URLSearchParams serialisation (redirectUrl.searchParams.set, line 67, read
\* back by NextResponse.redirect, line 68): the application/x-www-form-urlencoded
\* byte serialiser keeps ASCII alphanumerics and * - . _ , writes a space as
\* "+" and percent-encodes every other byte.
FormSafeChars == Range(UpperLetters) \cup Range(LowerLetters) \cup Range(Digits)
                    \cup {"*", "-", ".", "_"}

PercentTable ==
    [c \in {"/", "%", "~", "?", "=", "&", "#", ":", "+"} |->
        CASE c = "/" -> Chars("%2F")
          [] c = "%" -> Chars("%25")
          [] c = "~" -> Chars("%7E")
          [] c = "?" -> Chars("%3F")
          [] c = "=" -> Chars("%3D")
          [] c = "&" -> Chars("%26")
          [] c = "#" -> Chars("%23")
          [] c = ":" -> Chars("%3A")
          [] c = "+" -> Chars("%2B")]

FormEncodeChar(c) ==
    IF c \in FormSafeChars THEN <<c>>
    ELSE IF c = " " THEN <<"+">>
    ELSE PercentTable[c]

FormEncode(s) == Concat([i \in 1..Len(s) |-> FormEncodeChar(s[i])])

\* Cookies: a jar maps each cookie name to its value, or to NoCookie.
CookieNames == {"sb-access-token", "sb-refresh-token"}
CookieValues == {"t1", "t2"}
NoCookie == "absent"
EmptyJar == [n \in CookieNames |-> NoCookie]
Jars == [CookieNames -> CookieValues \cup {NoCookie}]

\* cookies.set(name, value) for each element of cookiesToSet, in order.
RECURSIVE SetCookies(_, _)
SetCookies(jar, cookiesToSet) ==
    IF cookiesToSet = <<>> THEN jar
    ELSE SetCookies([jar EXCEPT ![Head(cookiesToSet).name] = Head(cookiesToSet).value],
                    Tail(cookiesToSet))

\* NextResponse.next({ request: { headers } }) (lines 21-25, 40-44).
NextResponseNext == [kind |-> "next", location |-> <<>>, cookies |-> EmptyJar]

\* NextResponse.redirect(url): a fresh response whose Location is url (path and
\* query; the origin is the request's own and is left out).
NextResponseRedirect(location) ==
    [kind |-> "redirect", location |-> location, cookies |-> EmptyJar]

\* The middleware call rejected: the framework answers with an error.
MiddlewareError == [kind |-> "error", location |-> <<>>, cookies |-> EmptyJar]

NoOutcome == [kind |-> "none", location |-> <<>>, cookies |-> EmptyJar]

\* Faulty variant of Decide: the signed-in visitor of an auth page is sent to
\* /login.
Decide_LandsOnLogin(pathname, user, resp) ==
    IF (\E route \in PROTECTED_ROUTES : StartsWith(pathname, route)) /\ ~user
    THEN NextResponseRedirect(Chars("/login?redirect=") \o FormEncode(pathname))
    ELSE IF (\E route \in AUTH_ROUTES : StartsWith(pathname, route)) /\ user
    THEN NextResponseRedirect(Chars("/login"))
    ELSE resp

\* Faulty variant of Decide: the redirects carry the cookies of the response
\* setAll built.
Decide_RedirectKeepsCookies(pathname, user, resp) ==
    IF (\E route \in PROTECTED_ROUTES : StartsWith(pathname, route)) /\ ~user
    THEN [NextResponseRedirect(Chars("/login?redirect=") \o FormEncode(pathname))
            EXCEPT !.cookies = resp.cookies]
    ELSE IF (\E route \in AUTH_ROUTES : StartsWith(pathname, route)) /\ user
    THEN [NextResponseRedirect(Chars("/dashboard")) EXCEPT !.cookies = resp.cookies]
    ELSE resp

\* Faulty variant of Decide: the return-to parameter is named redirectTo.
Decide_RedirectTo(pathname, user, resp) ==
    IF (\E route \in PROTECTED_ROUTES : StartsWith(pathname, route)) /\ ~user
    THEN NextResponseRedirect(Chars("/login?redirectTo=") \o FormEncode(pathname))
    ELSE IF (\E route \in AUTH_ROUTES : StartsWith(pathname, route)) /\ user
    THEN NextResponseRedirect(Chars("/dashboard"))
    ELSE resp

\* Faulty variant of Decide: the protected branch forgets to test the user.
Decide_IgnoresUser(pathname, user, resp) ==
    IF \E route \in PROTECTED_ROUTES : StartsWith(pathname, route)
    THEN NextResponseRedirect(Chars("/login?redirect=") \o FormEncode(pathname))
    ELSE IF (\E route \in AUTH_ROUTES : StartsWith(pathname, route)) /\ user
    THEN NextResponseRedirect(Chars("/dashboard"))
    ELSE resp

\* Lines 58-78: the decision once getUser has returned; user is TRUE when
\* data.user is an object and FALSE when it is null.
Decide(pathname, user, resp) ==
    IF isProtectedRoute(pathname) /\ ~user
    THEN NextResponseRedirect(Chars("/login?redirect=") \o FormEncode(pathname))
    ELSE IF isAuthRoute(pathname) /\ user
    THEN NextResponseRedirect(Chars("/dashboard"))
    ELSE resp

\* Request paths the model draws from: every base followed by every suffix.
PathBases ==
    {Chars("/"), Chars("/dashboard"), Chars("/settings"), Chars("/admin"),
     Chars("/login"), Chars("/signup"), Chars("/about"), Chars("/dash"),
     Chars("/_next/static"), Chars("/_next/image"), Chars("/favicon.ico"),
     Chars("/api/health")}

PathSuffixes ==
    {<<>>, Chars("x"), Chars("/users"), Chars("/report.png"), Chars(".svg"),
     Chars("/a%20b~c")}

Paths == {b \o x : b \in PathBases, x \in PathSuffixes}

\* Cookie jars an inbound request carries: no session, or a session cookie.
InboundJars == {EmptyJar, [EmptyJar EXCEPT !["sb-access-token"] = "t1"]}

MaxCookiesToSet == 2
MaxSetAllCalls == 1

CookiesToSetLists ==
    UNION {[1..n -> [name : CookieNames, value : CookieValues]] : n \in 1..MaxCookiesToSet}

NoRequest == [pathname |-> <<>>, cookies |-> EmptyJar]

\* The middleware touches nothing of the validators.
GuardFrame == UNCHANGED <<ssrfVars, uploadVars, safeNameVars, sanitizeVars,
        encoderVars, concurrentVars, healthVars, userVars, followVars>>

GuardIdle ==
    /\ pc = "idle"
    /\ request = NoRequest
    /\ response = NoOutcome
    /\ outcome = NoOutcome
    /\ invoked = 0
    /\ setAllCalls = 0
    /\ handlerReached = FALSE
    /\ getUserResult = "none"

\* An inbound HTTP request reaches the framework.
Arrive(p, jar) ==
    /\ GuardFrame
    /\ pc = "idle"
    /\ pc' = "arrived"
    /\ request' = [pathname |-> p, cookies |-> jar]
    /\ UNCHANGED <<response, outcome, invoked, setAllCalls, handlerReached, getUserResult>>

\* The framework calls middleware(request) for a path config.matcher matches;
\* lines 20-56 run up to the await of supabase.auth.getUser().
MiddlewareStart ==
    /\ GuardFrame
    /\ pc = "arrived"
    /\ MatcherMatches(request.pathname)
    /\ response' = NextResponseNext
    /\ invoked' = invoked + 1
    /\ pc' = "awaitGetUser"
    /\ UNCHANGED <<request, outcome, setAllCalls, handlerReached, getUserResult>>

\* A path config.matcher does not match goes to route dispatch directly.
MatcherSkips ==
    /\ GuardFrame
    /\ pc = "arrived"
    /\ ~MatcherMatches(request.pathname)
    /\ pc' = "responded"
    /\ UNCHANGED <<request, response, outcome, invoked, setAllCalls, handlerReached,
                   getUserResult>>

\* cookies.setAll(cookiesToSet) (lines 36-48), called by the session refresh
\* while getUser is awaited.
SetAll(cookiesToSet) ==
    /\ GuardFrame
    /\ pc = "awaitGetUser"
    /\ setAllCalls < MaxSetAllCalls
    /\ request' = [request EXCEPT !.cookies = SetCookies(request.cookies, cookiesToSet)]
    /\ response' = [NextResponseNext EXCEPT !.cookies = SetCookies(EmptyJar, cookiesToSet)]
    /\ setAllCalls' = setAllCalls + 1
    /\ UNCHANGED <<pc, outcome, invoked, handlerReached, getUserResult>>

\* getUser() resolves with { data: { user }, error }: "user" is a user object,
\* "nouser" is user null without error, "error" is user null with an AuthError
\* (invalid token, auth server unreachable). Lines 58-78 then run to the return.
GetUserReturns(result) ==
    /\ GuardFrame
    /\ pc = "awaitGetUser"
    /\ result = "user" => request.cookies # EmptyJar
    /\ getUserResult' = result
    /\ outcome' = Decide(request.pathname, result = "user", response)
    /\ pc' = "responded"
    /\ UNCHANGED <<request, response, invoked, setAllCalls, handlerReached>>

\* getUser() rejects (it rethrows whatever is not an AuthError): the await at
\* line 56 throws, nothing catches it, and middleware() rejects.
GetUserThrows ==
    /\ GuardFrame
    /\ pc = "awaitGetUser"
    /\ getUserResult' = "threw"
    /\ outcome' = MiddlewareError
    /\ pc' = "responded"
    /\ UNCHANGED <<request, response, invoked, setAllCalls, handlerReached>>

\* Route dispatch: the handler of the requested path runs when the middleware
\* was skipped or returned NextResponse.next().
RunHandler ==
    /\ GuardFrame
    /\ pc = "responded"
    /\ outcome.kind \in {"none", "next"}
    /\ handlerReached' = TRUE
    /\ pc' = "done"
    /\ UNCHANGED <<request, response, outcome, invoked, setAllCalls, getUserResult>>

\* A redirect or an error is sent to the client; no handler runs.
SendResponse ==
    /\ GuardFrame
    /\ pc = "responded"
    /\ outcome.kind \in {"redirect", "error"}
    /\ pc' = "done"
    /\ UNCHANGED <<request, response, outcome, invoked, setAllCalls, handlerReached,
                   getUserResult>>

\* The request is over; the next one starts from scratch.
Complete ==
    /\ GuardFrame
    /\ pc = "done"
    /\ pc' = "idle"
    /\ request' = NoRequest
    /\ response' = NoOutcome
    /\ outcome' = NoOutcome
    /\ invoked' = 0
    /\ setAllCalls' = 0
    /\ handlerReached' = FALSE
    /\ getUserResult' = "none"

Next ==
    \/ \E p \in Paths, jar \in InboundJars : Arrive(p, jar)
    \/ MiddlewareStart
    \/ MatcherSkips
    \/ \E cookiesToSet \in CookiesToSetLists : SetAll(cookiesToSet)
    \/ \E result \in {"user", "nouser", "error"} : GetUserReturns(result)
    \/ GetUserThrows
    \/ RunHandler
    \/ SendResponse
    \/ Complete

-----------------------------------------------------------------------------
(* src/middleware.ts, several invocations in flight at once: the runtime starts
   middleware(request) for each inbound request, and an invocation waiting at
   the await of line 56 lets the others run. *)

Invocations == {"r1", "r2"}

\* Faulty variant of ResponseBinding: `response` declared at module level,
\* one binding for all invocations.
ResponseBinding_ModuleLevel(r) == "r1"

\* `let response` (line 21) is declared inside middleware(): every invocation
\* has a binding of its own, which its setAll closure (line 40) assigns.
ResponseBinding(r) == r

ConcurrentPaths ==
    {Chars("/"), Chars("/dashboard"), Chars("/admin/users"), Chars("/login"), Chars("/about")}

\* What a session refresh hands to setAll.
RefreshedCookies ==
    {<<[name |-> "sb-access-token", value |-> "t2"]>>,
     <<[name |-> "sb-access-token", value |-> "t1"],
       [name |-> "sb-refresh-token", value |-> "t2"]>>}

ConcurrentFrame == UNCHANGED <<guardVars, ssrfVars, uploadVars, safeNameVars,
        sanitizeVars, encoderVars, healthVars, userVars, followVars>>

ConcurrentIdle ==
    /\ inFlight = [r \in Invocations |-> "idle"]
    /\ bindings = [r \in Invocations |-> NoOutcome]
    /\ arguments = [r \in Invocations |-> NoRequest]
    /\ setAllLog = [r \in Invocations |-> <<>>]
    /\ resolved = [r \in Invocations |-> "none"]
    /\ returned = [r \in Invocations |-> NoOutcome]

\* middleware(request) starts for invocation r and runs to the await
\* (lines 20-56).
Invoke(r) ==
    /\ inFlight[r] = "idle"
    /\ \E p \in ConcurrentPaths, jar \in InboundJars :
         arguments' = [arguments EXCEPT ![r] = [pathname |-> p, cookies |-> jar]]
    /\ bindings' = [bindings EXCEPT ![ResponseBinding(r)] = NextResponseNext]
    /\ inFlight' = [inFlight EXCEPT ![r] = "awaitGetUser"]
    /\ UNCHANGED <<setAllLog, resolved, returned>>
    /\ ConcurrentFrame

\* The session refresh of invocation r calls its setAll (lines 36-48).
InvocationSetAll(r) ==
    /\ inFlight[r] = "awaitGetUser"
    /\ Len(setAllLog[r]) < MaxSetAllCalls
    /\ \E cookiesToSet \in RefreshedCookies :
         /\ arguments' = [arguments EXCEPT
                ![r].cookies = SetCookies(arguments[r].cookies, cookiesToSet)]
         /\ bindings' = [bindings EXCEPT ![ResponseBinding(r)] =
                [NextResponseNext EXCEPT !.cookies = SetCookies(EmptyJar, cookiesToSet)]]
         /\ setAllLog' = [setAllLog EXCEPT ![r] = Append(setAllLog[r], cookiesToSet)]
    /\ UNCHANGED <<inFlight, resolved, returned>>
    /\ ConcurrentFrame

\* getUser() resolves for invocation r and lines 58-78 run to the return.
InvocationReturns(r) ==
    /\ inFlight[r] = "awaitGetUser"
    /\ \E result \in {"user", "nouser", "error"} :
         /\ result = "user" => arguments[r].cookies # EmptyJar
         /\ resolved' = [resolved EXCEPT ![r] = result]
         /\ returned' = [returned EXCEPT ![r] =
                Decide(arguments[r].pathname, result = "user", bindings[ResponseBinding(r)])]
    /\ inFlight' = [inFlight EXCEPT ![r] = "returned"]
    /\ UNCHANGED <<bindings, arguments, setAllLog>>
    /\ ConcurrentFrame

\* getUser() rejects for invocation r: middleware() rejects (line 56).
InvocationThrows(r) ==
    /\ inFlight[r] = "awaitGetUser"
    /\ resolved' = [resolved EXCEPT ![r] = "threw"]
    /\ returned' = [returned EXCEPT ![r] = MiddlewareError]
    /\ inFlight' = [inFlight EXCEPT ![r] = "returned"]
    /\ UNCHANGED <<bindings, arguments, setAllLog>>
    /\ ConcurrentFrame

NextConcurrent ==
    \/ \E r \in Invocations : Invoke(r)
    \/ \E r \in Invocations : InvocationSetAll(r)
    \/ \E r \in Invocations : InvocationReturns(r)
    \/ \E r \in Invocations : InvocationThrows(r)

-----------------------------------------------------------------------------
(* new URL(urlString), as far as src/lib/security/ssrf.ts reads it: whether it
   parses, url.protocol and url.hostname (WHATWG URL parsing). *)

HexDigits == Chars("0123456789abcdef")

IsHexDigit(c) == LowerChar(c) \in Range(HexDigits)

DigitValue(c) == IndexIn(LowerChar(c), HexDigits) - 1

\* The largest number the model's arithmetic holds; NumberOf saturates there.
MaxInt == 2147483647

\* The number a digit string denotes in the given radix.
RECURSIVE NumberOf(_, _)
NumberOf(s, radix) ==
    IF s = <<>> THEN 0
    ELSE LET high == NumberOf(SubSeq(s, 1, Len(s) - 1), radix)
             d == DigitValue(s[Len(s)]) IN
         IF high > (MaxInt - d) \div radix THEN MaxInt ELSE high * radix + d

RECURSIVE ToRadix(_, _)
ToRadix(n, radix) ==
    IF n < radix THEN <<HexDigits[n + 1]>>
    ELSE ToRadix(n \div radix, radix) \o <<HexDigits[(n % radix) + 1]>>

ToDecimal(n) == ToRadix(n, 10)

\* Index of the first element of s at or after i that is in cs, or 0.
RECURSIVE FirstIndexFrom(_, _, _)
FirstIndexFrom(s, cs, i) ==
    IF i > Len(s) THEN 0 ELSE IF s[i] \in cs THEN i ELSE FirstIndexFrom(s, cs, i + 1)

FirstIndex(s, cs) == FirstIndexFrom(s, cs, 1)

\* Index of the last element of s at or before i that is in cs, or 0.
RECURSIVE LastIndexFrom(_, _, _)
LastIndexFrom(s, cs, i) ==
    IF i < 1 THEN 0 ELSE IF s[i] \in cs THEN i ELSE LastIndexFrom(s, cs, i - 1)

LastIndex(s, cs) == LastIndexFrom(s, cs, Len(s))

From(s, i) == SubSeq(s, i, Len(s))

RECURSIVE Split(_, _)
Split(s, c) ==
    LET i == FirstIndex(s, {c}) IN
    IF i = 0 THEN <<s>> ELSE <<SubSeq(s, 1, i - 1)>> \o Split(From(s, i + 1), c)

\* Leading and trailing spaces are stripped before parsing.
RECURSIVE Trim(_)
Trim(s) ==
    IF s # <<>> /\ Head(s) = " " THEN Trim(Tail(s))
    ELSE IF s # <<>> /\ s[Len(s)] = " " THEN Trim(SubSeq(s, 1, Len(s) - 1))
    ELSE s

SpecialSchemes == {Chars("http"), Chars("https"), Chars("ftp"), Chars("ws"), Chars("wss")}

ParseFailure == [ok |-> FALSE, protocol |-> <<>>, hostname |-> <<>>]

Parsed(scheme, hostname) == [ok |-> TRUE, protocol |-> scheme \o <<":">>, hostname |-> hostname]

\* One part of an IPv4 host: 0x.. is hexadecimal, a leading 0 is octal, else
\* decimal; -1 when it is no number.
IPv4PartValue(part) ==
    IF part = <<>> THEN -1
    ELSE IF Len(part) >= 2 /\ part[1] = "0" /\ LowerChar(part[2]) = "x"
    THEN IF \A i \in 3..Len(part) : IsHexDigit(part[i])
         THEN NumberOf(From(part, 3), 16) ELSE -1
    ELSE IF Len(part) >= 2 /\ part[1] = "0"
    THEN IF \A i \in 2..Len(part) : part[i] \in Range(SubSeq(Digits, 1, 8))
         THEN NumberOf(From(part, 2), 8) ELSE -1
    ELSE IF \A i \in 1..Len(part) : IsDigit(part[i])
    THEN NumberOf(part, 10) ELSE -1

\* The parts of a host between dots, one trailing empty part dropped.
HostParts(host) ==
    LET parts == Split(host, ".") IN
    IF Len(parts) > 1 /\ parts[Len(parts)] = <<>>
    THEN SubSeq(parts, 1, Len(parts) - 1) ELSE parts

\* The "ends in a number" test that makes a host an IPv4 address.
EndsInNumber(host) ==
    LET parts == HostParts(host)
        last == parts[Len(parts)] IN
    /\ last # <<>>
    /\ \/ \A i \in 1..Len(last) : IsDigit(last[i])
       \/ IPv4PartValue(last) >= 0

Pow256(k) == IF k = 0 THEN 1 ELSE IF k = 1 THEN 256 ELSE IF k = 2 THEN 65536 ELSE 16777216

\* The IPv4 parser: the four octets, or <<>> on failure. Each part but the
\* last is one octet; the last part fills the octets that remain. (A host that
\* is one number of 2^31 - 1 or more is not drawn; it is reported as a failure.)
IPv4Octets(host) ==
    LET parts == HostParts(host)
        n == Len(parts)
        vals == [i \in 1..n |-> IPv4PartValue(parts[i])] IN
    IF n > 4 \/ \E i \in 1..n : vals[i] < 0 THEN <<>>
    ELSE IF \E i \in 1..(n - 1) : vals[i] > 255 THEN <<>>
    ELSE IF vals[n] = MaxInt \/ (n > 1 /\ vals[n] >= Pow256(5 - n)) THEN <<>>
    ELSE [i \in 1..4 |-> IF i < n THEN vals[i] ELSE (vals[n] \div Pow256(4 - i)) % 256]

\* The IPv4 serialiser: dotted decimal.
IPv4Serialize(o) ==
    ToDecimal(o[1]) \o <<".">> \o ToDecimal(o[2]) \o <<".">>
        \o ToDecimal(o[3]) \o <<".">> \o ToDecimal(o[4])

IsIPv6Piece(piece) ==
    Len(piece) \in 1..4 /\ \A i \in 1..Len(piece) : IsHexDigit(piece[i])

PiecesOf(s) == IF s = <<>> THEN <<>> ELSE Split(s, ":")

\* The IPv6 parser for addresses written with hexadecimal pieces and at most
\* one "::" (addresses with an embedded IPv4 part are not drawn): the eight
\* 16-bit pieces, or <<>> on failure.
IPv6Pieces(s) ==
    LET dc == IF \E i \in 1..(Len(s) - 1) : s[i] = ":" /\ s[i + 1] = ":"
              THEN CHOOSE i \in 1..(Len(s) - 1) :
                        /\ s[i] = ":" /\ s[i + 1] = ":"
                        /\ \A j \in 1..(i - 1) : ~(s[j] = ":" /\ s[j + 1] = ":")
              ELSE 0 IN
    IF dc = 0
    THEN LET ps == PiecesOf(s) IN
         IF Len(ps) = 8 /\ \A i \in 1..8 : IsIPv6Piece(ps[i])
         THEN [i \in 1..8 |-> NumberOf(ps[i], 16)] ELSE <<>>
    ELSE LET left == PiecesOf(SubSeq(s, 1, dc - 1))
             right == PiecesOf(From(s, dc + 2))
             k == Len(left) + Len(right) IN
         IF /\ k <= 7
            /\ \A i \in 1..Len(left) : IsIPv6Piece(left[i])
            /\ \A i \in 1..Len(right) : IsIPv6Piece(right[i])
         THEN [i \in 1..8 |->
                IF i <= Len(left) THEN NumberOf(left[i], 16)
                ELSE IF i > 8 - Len(right) THEN NumberOf(right[i - (8 - Len(right))], 16)
                ELSE 0]
         ELSE <<>>

\* Length of the run of zero pieces starting at i.
RECURSIVE ZeroRun(_, _)
ZeroRun(ps, i) == IF i > 8 \/ ps[i] # 0 THEN 0 ELSE 1 + ZeroRun(ps, i + 1)

\* The IPv6 serialiser: lower-case hexadecimal, the first longest run of two
\* or more zero pieces written "::".
IPv6Serialize(ps) ==
    LET best == CHOOSE i \in 1..8 :
                    /\ \A j \in 1..8 : ZeroRun(ps, j) <= ZeroRun(ps, i)
                    /\ \A j \in 1..(i - 1) : ZeroRun(ps, j) < ZeroRun(ps, i)
        run == ZeroRun(ps, best)
        RECURSIVE Put(_)
        Put(i) ==
            IF i > 8 THEN <<>>
            ELSE IF run >= 2 /\ i = best
            THEN (IF i = 1 THEN Chars("::") ELSE <<":">>) \o Put(i + run)
            ELSE ToRadix(ps[i], 16) \o (IF i < 8 THEN <<":">> ELSE <<>>) \o Put(i + 1)
    IN Put(1)

ForbiddenDomainChars == {" ", "#", "/", ":", "<", ">", "?", "@", "[", "\\", "]", "^", "|", "%"}

\* The host parser for a special scheme: the serialised host, or <<>> on
\* failure. An IPv6 host keeps its brackets in url.hostname.
ParseHost(host) ==
    IF host = <<>> THEN <<>>
    ELSE IF host[1] = "["
    THEN IF host[Len(host)] # "]" THEN <<>>
         ELSE LET ps == IPv6Pieces(SubSeq(host, 2, Len(host) - 1)) IN
              IF ps = <<>> THEN <<>> ELSE <<"[">> \o IPv6Serialize(ps) \o <<"]">>
    ELSE IF \E i \in 1..Len(host) : host[i] \in ForbiddenDomainChars THEN <<>>
    ELSE LET domain == ToLowerCase(host) IN
         IF EndsInNumber(domain)
         THEN (IF IPv4Octets(domain) = <<>> THEN <<>> ELSE IPv4Serialize(IPv4Octets(domain)))
         ELSE domain

RECURSIVE SkipSlashes(_)
SkipSlashes(s) == IF s # <<>> /\ Head(s) \in {"/", "\\"} THEN SkipSlashes(Tail(s)) ELSE s

\* The authority of a special URL: skip any run of slashes, take what comes
\* before the first / \ ? #, drop the credentials and the port.
ParseAuthority(scheme, afterColon) ==
    LET rest == SkipSlashes(afterColon)
        stop == FirstIndex(rest, {"/", "\\", "?", "#"})
        authority == IF stop = 0 THEN rest ELSE SubSeq(rest, 1, stop - 1)
        at == LastIndex(authority, {"@"})
        hostport == From(authority, at + 1)
        close == FirstIndex(hostport, {"]"})
        colon == IF hostport # <<>> /\ hostport[1] = "["
                 THEN (IF close = 0 THEN 0
                       ELSE IF close < Len(hostport) /\ hostport[close + 1] = ":"
                       THEN close + 1 ELSE 0)
                 ELSE FirstIndex(hostport, {":"})
        host == IF colon = 0 THEN hostport ELSE SubSeq(hostport, 1, colon - 1)
        port == IF colon = 0 THEN <<>> ELSE From(hostport, colon + 1)
        portOk == /\ \A i \in 1..Len(port) : IsDigit(port[i])
                  /\ Len(port) <= 5
                  /\ NumberOf(port, 10) <= 65535
        hostname == ParseHost(host) IN
    IF hostname = <<>> \/ ~portOk THEN ParseFailure ELSE Parsed(scheme, hostname)

\* new URL(urlString) without a base.
ParseUrl(urlString) ==
    LET input == Trim(urlString)
        colon == FirstIndex(input, {":"})
        scheme == ToLowerCase(SubSeq(input, 1, colon - 1))
        afterColon == From(input, colon + 1) IN
    IF colon <= 1 \/ ~IsAlpha(input[1]) THEN ParseFailure
    ELSE IF \E i \in 2..(colon - 1) : ~(IsAlpha(input[i]) \/ IsDigit(input[i])
                                          \/ input[i] \in {"+", "-", "."})
    THEN ParseFailure
    ELSE IF scheme \in SpecialSchemes THEN ParseAuthority(scheme, afterColon)
    ELSE IF StartsWith(afterColon, Chars("//"))
    THEN \* file: and non-special schemes: the host may be empty and is not
         \* needed by the caller, which rejects the protocol first.
         LET rest == From(afterColon, 3)
             stop == FirstIndex(rest, {"/", "\\", "?", "#"})
             host == IF stop = 0 THEN rest ELSE SubSeq(rest, 1, stop - 1) IN
         IF \E i \in 1..Len(host) : host[i] \in {" ", "<", ">", "^", "|", "[", "]"}
         THEN ParseFailure
         ELSE Parsed(scheme, IF scheme = Chars("file") THEN ToLowerCase(host) ELSE host)
    ELSE Parsed(scheme, <<>>)

-----------------------------------------------------------------------------
(* src/lib/security/ssrf.ts *)

BLOCKED_HOSTS ==
    {Chars("localhost"), Chars("127.0.0.1"), Chars("0.0.0.0"), Chars("169.254.169.254"),
     Chars("metadata.google.internal"), Chars("metadata.azure.com")}

\* Faulty variant of Matches172Pattern: the 3[0-1] alternative is missing.
Matches172Pattern_No30(hostname) ==
    /\ Len(hostname) >= 7
    /\ SubSeq(hostname, 1, 4) = Chars("172.")
    /\ \/ hostname[5] = "1" /\ hostname[6] \in {"6", "7", "8", "9"}
       \/ hostname[5] = "2" /\ IsDigit(hostname[6])
    /\ hostname[7] = "."

\* /^172\.(1[6-9]|2[0-9]|3[0-1])\./
Matches172Pattern(hostname) ==
    /\ Len(hostname) >= 7
    /\ SubSeq(hostname, 1, 4) = Chars("172.")
    /\ \/ hostname[5] = "1" /\ hostname[6] \in {"6", "7", "8", "9"}
       \/ hostname[5] = "2" /\ IsDigit(hostname[6])
       \/ hostname[5] = "3" /\ hostname[6] \in {"0", "1"}
    /\ hostname[7] = "."

\* BLOCKED_IP_RANGES (lines 19-29): pattern.test(hostname) for some pattern.
MatchesBlockedIpRange(hostname) ==
    \/ StartsWith(hostname, Chars("10."))
    \/ Matches172Pattern(hostname)
    \/ StartsWith(hostname, Chars("192.168."))
    \/ StartsWith(hostname, Chars("127."))
    \/ StartsWith(hostname, Chars("0."))
    \/ StartsWith(hostname, Chars("169.254."))
    \/ hostname = Chars("::1")
    \/ StartsWith(hostname, Chars("fc00:"))
    \/ StartsWith(hostname, Chars("fe80:"))

BLOCKED_SCHEMES == <<Chars("file:"), Chars("ftp:"), Chars("gopher:"), Chars("dict:"), Chars("ldap:")>>

\* Faulty variant of ContainsBlockedScheme: the input is not lower-cased.
ContainsBlockedScheme_CaseSensitive(urlString) ==
    \E i \in 1..Len(BLOCKED_SCHEMES) : Includes(urlString, BLOCKED_SCHEMES[i])

\* Lines 52-57: some blocked scheme is a substring of the lower-cased input.
ContainsBlockedScheme(urlString) ==
    \E i \in 1..Len(BLOCKED_SCHEMES) : Includes(ToLowerCase(urlString), BLOCKED_SCHEMES[i])

\* Faulty variant of validateExternalUrl: the protocol check of lines 47-50 is missing.
validateExternalUrl_NoProtocolCheck(urlString, url) ==
    LET hostname == ToLowerCase(url.hostname) IN
    IF ~url.ok THEN "Invalid URL format"
    ELSE IF ContainsBlockedScheme(urlString) THEN "Blocked scheme detected"
    ELSE IF hostname \in BLOCKED_HOSTS THEN "Blocked host"
    ELSE IF MatchesBlockedIpRange(hostname) THEN "Private IP range blocked"
    ELSE "true"

\* Faulty variant of validateExternalUrl: the host checks of lines 62-70 come
\* before the scheme substring check of lines 52-57.
validateExternalUrl_HostsFirst(urlString, url) ==
    LET hostname == ToLowerCase(url.hostname) IN
    IF ~url.ok THEN "Invalid URL format"
    ELSE IF url.protocol \notin {Chars("http:"), Chars("https:")} THEN "Blocked protocol"
    ELSE IF hostname \in BLOCKED_HOSTS THEN "Blocked host"
    ELSE IF MatchesBlockedIpRange(hostname) THEN "Private IP range blocked"
    ELSE IF ContainsBlockedScheme(urlString) THEN "Blocked scheme detected"
    ELSE "true"

\* validateExternalUrl (lines 38-73), url being new URL(urlString) of lines
\* 41-45: "true" when it returns true, else the message of the Error it
\* throws, without the interpolated value.
validateExternalUrl(urlString, url) ==
    LET hostname == ToLowerCase(url.hostname) IN
    IF ~url.ok THEN "Invalid URL format"
    ELSE IF url.protocol \notin {Chars("http:"), Chars("https:")} THEN "Blocked protocol"
    ELSE IF ContainsBlockedScheme(urlString) THEN "Blocked scheme detected"
    ELSE IF hostname \in BLOCKED_HOSTS THEN "Blocked host"
    ELSE IF MatchesBlockedIpRange(hostname) THEN "Private IP range blocked"
    ELSE "true"

\* The inputs the model draws: scheme://host tail over named hosts, IPv6
\* literals and IPv4 literals, plus strings that are no such URL.
UrlSchemes ==
    {Chars("http"), Chars("https"), Chars("HTTP"), Chars("hTTps"), Chars("file"),
     Chars("ftp"), Chars("gopher"), Chars("dict"), Chars("ldap"), Chars("FILE"),
     Chars("javascript"), Chars("ws")}

NamedHosts ==
    {Chars("localhost"), Chars("LOCALHOST"), Chars("LocalHost"), Chars("localhost."),
     Chars("metadata.google.internal"), Chars("Metadata.Google.Internal"),
     Chars("metadata.azure.com"), Chars("METADATA.AZURE.COM"),
     Chars("example.com"), Chars("Example.COM"), Chars("mylocalhost"),
     Chars("user@localhost"), Chars("localhost:8080"), Chars("x"),
     Chars("127.1"), Chars("0x7f.0.0.1"), Chars("2130706433"), Chars("0"),
     Chars("010.0.0.1"), Chars("0xA9.0xFE.0xA9.0xFE"), Chars("10.0.0.1.example.com"),
     Chars("1.2.3.256"), Chars("exa mple.com")}

IPv6Hosts ==
    {Chars("[::1]"), Chars("[0:0:0:0:0:0:0:1]"), Chars("[::2]"),
     Chars("[fc00::1]"), Chars("[FC00::1]"), Chars("[fc01::1]"), Chars("[fd12:3456::1]"),
     Chars("[fdff::]"), Chars("[fe80::1]"), Chars("[fe80:0:0:0:1::]"), Chars("[fe81::1]"),
     Chars("[febf::1]"), Chars("[fec0::1]"), Chars("[fbff::1]"), Chars("[2001:db8::1]"),
     Chars("[::1"), Chars("[1::2::3]")}

FirstOctets == {0, 1, 9, 10, 11, 126, 127, 128, 168, 169, 170, 171, 172, 173, 191, 192, 193}
SecondOctets == {0, 15, 16, 20, 29, 31, 32, 167, 168, 169, 253, 254, 255}
LastOctets == {1, 254}

Dotted(a, b, c, d) ==
    ToDecimal(a) \o <<".">> \o ToDecimal(b) \o <<".">> \o ToDecimal(c) \o <<".">> \o ToDecimal(d)

IPv4Hosts ==
    {Dotted(a, b, 0, d) : a \in FirstOctets, b \in SecondOctets, d \in LastOctets}
        \cup {Chars("0.0.0.0"), Chars("169.254.169.254"), Chars("127.0.0.1"),
              Chars("255.255.255.255")}

UrlTails ==
    {<<>>, Chars("/"), Chars("/path?q=1"), Chars("/?next=file:///etc/passwd"),
     Chars("/FTP:x"), Chars("#gopher:"), Chars("/a?b=Dict:c"), Chars("/ldap:")}

ShortTails == {Chars("/"), Chars("/?u=ftp://x")}

OddInputs ==
    {<<>>, Chars("not a url"), Chars("ftp:"), Chars("file:"), Chars("see ftp://x"),
     Chars("//example.com"), Chars("/relative/file:x"), Chars("http://"),
     Chars("http:example.com"), Chars("file:///etc/passwd"), Chars("ftp://x"),
     Chars("gopher://x"), Chars("mailto:a@b"), Chars(" http://localhost/ "),
     Chars("http://example.com:99999/"), Chars("1http://x"), Chars("LDAP://[::1"),
     Chars("https://user:file:@example.com/"), Chars("javascript:alert(1)")}

UrlInputs ==
    {s \o Chars("://") \o h \o t : s \in UrlSchemes, h \in NamedHosts \cup IPv6Hosts, t \in UrlTails}
        \cup {s \o Chars("://") \o h \o t :
                s \in {Chars("http"), Chars("https")}, h \in IPv4Hosts, t \in ShortTails}
        \cup OddInputs

\* The validators touch nothing of the middleware.
SsrfFrame == UNCHANGED <<guardVars, uploadVars, safeNameVars, sanitizeVars,
        encoderVars, concurrentVars, healthVars, userVars, followVars>>

\* Faulty variant of isInternalUrl: a string that is no URL is not internal.
isInternalUrl_UnparsableIsExternal(urlString, url) ==
    IF validateExternalUrl(urlString, url) \in {"true", "Invalid URL format"}
    THEN "false" ELSE "true"

\* isInternalUrl (lines 78-85): false after validateExternalUrl returned, true
\* when the catch caught what it threw.
isInternalUrl(urlString, url) ==
    IF validateExternalUrl(urlString, url) = "true" THEN "false" ELSE "true"

\* A caller hands validateExternalUrl or isInternalUrl a string.
SsrfCall ==
    /\ ssrfResult = "none"
    /\ \E u \in UrlInputs : ssrfUrlString' = u
    /\ ssrfResult' = "called"
    /\ UNCHANGED <<ssrfUrl, ssrfInternal>>
    /\ SsrfFrame

\* validateExternalUrl runs to its return or throw.
SsrfValidate ==
    /\ SsrfFrame
    /\ ssrfResult = "called"
    /\ ssrfUrl' = ParseUrl(ssrfUrlString)
    /\ ssrfResult' = validateExternalUrl(ssrfUrlString, ssrfUrl')
    /\ UNCHANGED <<ssrfUrlString, ssrfInternal>>

\* isInternalUrl runs to its return, the call of validateExternalUrl inside
\* its try included.
SsrfIsInternal ==
    /\ SsrfFrame
    /\ ssrfResult = "called"
    /\ ssrfUrl' = ParseUrl(ssrfUrlString)
    /\ ssrfResult' = validateExternalUrl(ssrfUrlString, ssrfUrl')
    /\ ssrfInternal' = isInternalUrl(ssrfUrlString, ssrfUrl')
    /\ UNCHANGED ssrfUrlString

\* The call is over.
SsrfDone ==
    /\ SsrfFrame
    /\ ssrfResult \notin {"none", "called"}
    /\ ssrfResult' = "none"
    /\ ssrfInternal' = "none"
    /\ ssrfUrlString' = <<>>
    /\ ssrfUrl' = ParseFailure

NextSsrf ==
    \/ SsrfCall
    \/ SsrfValidate
    \/ SsrfIsInternal
    \/ SsrfDone

-----------------------------------------------------------------------------
(* src/lib/security/file-upload.ts *)

\* MAGIC_BYTES (lines 9-15), keyed by MIME type.
MAGIC_BYTES ==
    [t \in {"image/jpeg", "image/png", "image/gif", "image/webp", "application/pdf"} |->
        CASE t = "image/jpeg" -> <<255, 216, 255>>
          [] t = "image/png" -> <<137, 80, 78, 71>>
          [] t = "image/gif" -> <<71, 73, 70, 56>>
          [] t = "image/webp" -> <<82, 73, 70, 70>>
          [] t = "application/pdf" -> <<37, 80, 68, 70>>]

ALLOWED_EXTENSIONS ==
    {Chars(".jpg"), Chars(".jpeg"), Chars(".png"), Chars(".gif"), Chars(".webp"), Chars(".pdf")}

MAX_FILE_SIZE == 10 * 1024 * 1024

\* file.slice(0, 8): the number of leading bytes the validator reads.
SliceLength == 8

\* Faulty variant of ExtOf: a name without a dot has no extension.
ExtOf_NoDotNoExtension(name) ==
    LET parts == Split(name, ".") IN
    IF Len(parts) = 1 THEN <<".">> ELSE <<".">> \o ToLowerCase(parts[Len(parts)])

\* "." + (file.name.split(".").pop()?.toLowerCase() || "") (line 38).
ExtOf(name) ==
    LET parts == Split(name, ".") IN <<".">> \o ToLowerCase(parts[Len(parts)])

\* Lines 57-63: bytes[i] !== expectedBytes[i] for some i; a byte past the end
\* of the slice is undefined and differs from every expected byte.
SignatureMismatch(bytes, expectedBytes) ==
    \E i \in 1..Len(expectedBytes) : i > Len(bytes) \/ bytes[i] # expectedBytes[i]

\* Faulty variant of MetadataChecks: the extension is looked at before the size.
MetadataChecks_ExtensionFirst(file) ==
    IF ExtOf(file.name) \notin ALLOWED_EXTENSIONS THEN "Invalid extension"
    ELSE IF file.size > MAX_FILE_SIZE THEN "File too large"
    ELSE IF file.size = 0 THEN "Empty file"
    ELSE IF file.type \notin DOMAIN MAGIC_BYTES THEN "Invalid MIME type"
    ELSE "pass"

\* Lines 28-46, the checks made before the file's content is touched: the
\* message of the Error thrown, without the interpolated values, or "pass".
MetadataChecks(file) ==
    IF file.size > MAX_FILE_SIZE THEN "File too large"
    ELSE IF file.size = 0 THEN "Empty file"
    ELSE IF ExtOf(file.name) \notin ALLOWED_EXTENSIONS THEN "Invalid extension"
    ELSE IF file.type \notin DOMAIN MAGIC_BYTES THEN "Invalid MIME type"
    ELSE "pass"

\* Lines 48-63, after the await: file.head is the content's first min(size, 8)
\* bytes, what file.slice(0, 8) yields. expectedBytes is defined (line 53)
\* because line 44 let only the keys of MAGIC_BYTES through.
SignatureCheck(file) ==
    IF SignatureMismatch(file.head, MAGIC_BYTES[file.type]) THEN "File signature mismatch"
    ELSE "ok"

\* validateFileUpload (lines 27-64): "ok" when the promise resolves, else the
\* message of the Error it rejects with.
validateFileUpload(file) ==
    IF MetadataChecks(file) # "pass" THEN MetadataChecks(file) ELSE SignatureCheck(file)

\* The files the model draws.
FileNames ==
    {Chars("photo.jpg"), Chars("photo.JPG"), Chars("a.b.jpeg"), Chars("x.png"),
     Chars("x.gif"), Chars("x.webp"), Chars("doc.pdf"), Chars("doc.PDF"),
     Chars("pdf"), Chars("JPG"), Chars("x."), <<>>, Chars("x.exe"),
     Chars("x.jpg.exe"), Chars("x.svg"), Chars("README"), Chars(".png"),
     Chars("my photo.Jpeg")}

FileTypes ==
    {"image/jpeg", "image/png", "image/gif", "image/webp", "application/pdf",
     "text/plain", "", "image/svg+xml", "image/jpg"}

\* Sizes 0..MaxSmallSize are drawn one by one, then the sizes around the limit.
MaxSmallSize == 5

FileSizes == (0..MaxSmallSize) \cup {SliceLength, SliceLength + 1,
                                      MAX_FILE_SIZE - 1, MAX_FILE_SIZE, MAX_FILE_SIZE + 1}

Min(a, b) == IF a < b THEN a ELSE b

\* s cut or zero-filled to exactly n bytes.
Fit(s, n) == [i \in 1..n |-> IF i <= Len(s) THEN s[i] ELSE 0]

\* Leading byte sequences: every signature, every signature with one byte
\* changed, and no bytes at all, fitted to the length the size allows.
BaseHeads ==
    {MAGIC_BYTES[t] : t \in DOMAIN MAGIC_BYTES}
        \cup {[MAGIC_BYTES[t] EXCEPT ![i] = 1] : t \in DOMAIN MAGIC_BYTES, i \in 1..3}
        \cup {[MAGIC_BYTES[t] EXCEPT ![4] = 1] : t \in DOMAIN MAGIC_BYTES \ {"image/jpeg"}}
        \cup {<<>>}

HeadsFor(size) == {Fit(h, Min(size, SliceLength)) : h \in BaseHeads}

\* No call in progress.
NoFile == [name |-> <<>>, type |-> "", size |-> 0, head |-> <<>>]

UploadFrame == UNCHANGED <<guardVars, ssrfVars, safeNameVars, sanitizeVars,
        encoderVars, concurrentVars, healthVars, userVars, followVars>>

\* A caller hands validateFileUpload a File.
UploadCall ==
    /\ uploadResult = "none"
    /\ \E n \in FileNames, t \in FileTypes, sz \in FileSizes :
         \E h \in HeadsFor(sz) :
            uploadFile' = [name |-> n, type |-> t, size |-> sz, head |-> h]
    /\ uploadResult' = "called"
    /\ uploadBytesRead' = FALSE
    /\ UploadFrame

\* validateFileUpload runs up to its await (lines 28-49): it throws at the
\* first check that fails, or asks for the first bytes of the file.
UploadValidate ==
    /\ uploadResult = "called"
    /\ uploadResult' = IF MetadataChecks(uploadFile) # "pass"
                       THEN MetadataChecks(uploadFile) ELSE "reading"
    /\ uploadBytesRead' = (MetadataChecks(uploadFile) = "pass")
    /\ UNCHANGED uploadFile
    /\ UploadFrame

\* The bytes arrive and validateFileUpload runs to its end (lines 50-63).
UploadSignature ==
    /\ uploadResult = "reading"
    /\ uploadResult' = SignatureCheck(uploadFile)
    /\ UNCHANGED <<uploadFile, uploadBytesRead>>
    /\ UploadFrame

\* The call is over.
UploadDone ==
    /\ uploadResult \notin {"none", "called", "reading"}
    /\ uploadResult' = "none"
    /\ uploadFile' = NoFile
    /\ uploadBytesRead' = FALSE
    /\ UploadFrame

NextUpload ==
    \/ UploadCall
    \/ UploadValidate
    \/ UploadSignature
    \/ UploadDone

-----------------------------------------------------------------------------
(* src/lib/security/file-upload.ts: generateSafeFilename *)

\* The null character U+0000, one element of a name like any other character.
NUL == "NUL"

\* originalName.split(".").pop()?.toLowerCase() || "bin" (line 71): split
\* always yields a last part, and the empty string is falsy.
SafeExtOf(name) ==
    LET parts == Split(name, ".")
        last == ToLowerCase(parts[Len(parts)])
    IN IF last = <<>> THEN Chars("bin") ELSE last

\* Faulty variant of generateSafeFilename: the extension keeps its case.
generateSafeFilename_KeepsCase(name, uuid) ==
    LET parts == Split(name, ".")
        last == parts[Len(parts)]
    IN uuid \o <<".">> \o (IF last = <<>> THEN Chars("bin") ELSE last)

\* generateSafeFilename (lines 70-74), given what crypto.randomUUID() returned.
generateSafeFilename(name, uuid) == uuid \o <<".">> \o SafeExtOf(name)

\* Version 4 UUIDs as crypto.randomUUID() formats them: 36 characters, lower
\* case hexadecimal digits in groups of 8-4-4-4-12.
UuidPool ==
    {Chars("3b241101-e2bb-4255-8caf-4136c566a962"),
     Chars("f47ac10b-58cc-4372-a567-0e02b2c3d479"),
     Chars("9b2e5f0a-7c1d-4e8b-b3a6-0d4c2f1e9a57")}

\* The original names the model draws.
OriginalNames ==
    {Chars("my photo.JPG"), Chars("README"), Chars("x."), <<>>, Chars("archive.tar.GZ"),
     Chars(".hidden"), Chars("x./etc/passwd"), Chars("x./../../etc/passwd"),
     Chars("a/b"), Chars("x.\\evil"), <<"x", ".", "p", NUL, "h", "p">>, Chars("x.PnG")}

\* Calls of generateSafeFilename a behaviour makes.
MaxGenerateCalls == 2

SafeNameFrame == UNCHANGED <<guardVars, ssrfVars, uploadVars, sanitizeVars,
        encoderVars, concurrentVars, healthVars, userVars, followVars>>

SafeNameIdle ==
    /\ originalName = <<>>
    /\ safeName = <<>>
    /\ issuedUuids = {}
    /\ safeNames = <<>>

\* One call of generateSafeFilename; crypto.randomUUID() hands out an
\* identifier it has not handed out before.
GenerateSafeFilename ==
    /\ Len(safeNames) < MaxGenerateCalls
    /\ \E name \in OriginalNames, uuid \in UuidPool \ issuedUuids :
         /\ originalName' = name
         /\ issuedUuids' = issuedUuids \cup {uuid}
         /\ safeName' = generateSafeFilename(name, uuid)
         /\ safeNames' = Append(safeNames, safeName')
    /\ SafeNameFrame

NextSafeName == GenerateSafeFilename

-----------------------------------------------------------------------------
(* src/lib/security/file-upload.ts: sanitizeFilename *)

\* s.replace(/\.\./g, "") (line 81): the matches are found left to right
\* in s and do not overlap; what the removal brings together is not rescanned.
RECURSIVE RemoveDotDot(_)
RemoveDotDot(s) ==
    IF s = <<>> THEN <<>>
    ELSE IF Len(s) >= 2 /\ s[1] = "." /\ s[2] = "." THEN RemoveDotDot(SubSeq(s, 3, Len(s)))
    ELSE <<Head(s)>> \o RemoveDotDot(Tail(s))

\* s.replace(/\0/g, "") (line 83).
RemoveNullBytes(s) == SelectSeq(s, LAMBDA c : c # NUL)

\* [a-zA-Z0-9._-] (line 85).
SafeFilenameChars ==
    Range(UpperLetters) \cup Range(LowerLetters) \cup Range(Digits) \cup {".", "_", "-"}

\* s.replace(/[^a-zA-Z0-9._-]/g, "_") (line 85).
ReplaceUnsafeChars(s) == [i \in 1..Len(s) |-> IF s[i] \in SafeFilenameChars THEN s[i] ELSE "_"]

\* sanitizeFilename (lines 79-87).
sanitizeFilename(name) == ReplaceUnsafeChars(RemoveNullBytes(RemoveDotDot(name)))

\* The characters and the longest length of the file names the model draws.
FilenameAlphabet == {".", NUL, "a", "Z", "7", "/", " ", "-"}

MaxFilenameLen == 4

FilenameInputs == UNION {[1..n -> FilenameAlphabet] : n \in 0..MaxFilenameLen}

SanitizeFrame == UNCHANGED <<guardVars, ssrfVars, uploadVars, safeNameVars,
        encoderVars, concurrentVars, healthVars, userVars, followVars>>

SanitizeIdle == filename = <<>> /\ safe = <<>> /\ sanitized = FALSE

\* One call of sanitizeFilename, from its argument to its return value.
SanitizeFilename ==
    /\ ~sanitized
    /\ \E name \in FilenameInputs :
         /\ filename' = name
         /\ safe' = sanitizeFilename(name)
    /\ sanitized' = TRUE
    /\ SanitizeFrame

\* The caller is done with the returned name.
SanitizeDone ==
    /\ sanitized
    /\ filename' = <<>>
    /\ safe' = <<>>
    /\ sanitized' = FALSE
    /\ SanitizeFrame

NextSanitize ==
    \/ SanitizeFilename
    \/ SanitizeDone

-----------------------------------------------------------------------------
(* src/lib/security/escape.ts *)

\* Code units that a TLA+ string cannot hold, one element of a string each:
\* line feed U+000A, carriage return U+000D, line separator U+2028, and the
\* two halves of U+1F600, the high surrogate U+D83D and the low U+DE00.
LF == "LF"
CR == "CR"
LS == "LS"
HI == "HI"
LO == "LO"

\* s.replace(/c/g, by) for a one-character pattern: one pass over s; what is
\* put in is not scanned again.
RECURSIVE ReplaceAll(_, _, _)
ReplaceAll(s, c, by) ==
    IF s = <<>> THEN <<>>
    ELSE (IF Head(s) = c THEN by ELSE <<Head(s)>>) \o ReplaceAll(Tail(s), c, by)

\* Faulty variant of escapeHtml: the ampersand is replaced last.
escapeHtml_AmpersandLast(s) ==
    IF s = <<>> THEN <<>>
    ELSE ReplaceAll(ReplaceAll(ReplaceAll(ReplaceAll(ReplaceAll(s,
            "<", Chars("&lt;")),
            ">", Chars("&gt;")),
            "\"", Chars("&quot;")),
            "'", Chars("&#039;")),
            "&", Chars("&amp;"))

\* escapeHtml (lines 14-22): "" for the empty string (line 15), else the five
\* replacements one after the other, each over the result of the one before.
escapeHtml(s) ==
    IF s = <<>> THEN <<>>
    ELSE ReplaceAll(ReplaceAll(ReplaceAll(ReplaceAll(ReplaceAll(s,
            "&", Chars("&amp;")),
            "<", Chars("&lt;")),
            ">", Chars("&gt;")),
            "\"", Chars("&quot;")),
            "'", Chars("&#039;"))

\* Faulty variant of StripTags: of a tag only its two angle brackets go.
RECURSIVE StripTags_BracketsOnly(_)
StripTags_BracketsOnly(s) ==
    IF s = <<>> THEN <<>>
    ELSE IF Head(s) = "<" /\ FirstIndex(Tail(s), {">"}) # 0
    THEN SubSeq(Tail(s), 1, FirstIndex(Tail(s), {">"}) - 1)
            \o StripTags_BracketsOnly(From(Tail(s), FirstIndex(Tail(s), {">"}) + 1))
    ELSE <<Head(s)>> \o StripTags_BracketsOnly(Tail(s))

\* html.replace(/<[^>]*>/g, "") (line 31): left to right, a '<' together with
\* everything up to the nearest '>' after it is removed and the scan goes on
\* behind that '>'; a '<' with no '>' after it stays.
RECURSIVE StripTags(_)
StripTags(s) ==
    IF s = <<>> THEN <<>>
    ELSE IF Head(s) = "<" /\ FirstIndex(Tail(s), {">"}) # 0
    THEN StripTags(From(Tail(s), FirstIndex(Tail(s), {">"}) + 1))
    ELSE <<Head(s)>> \o StripTags(Tail(s))

\* What DOMPurify.sanitize(html, {...}) returns (lines 34-38): a string that
\* the library makes; the model keeps it as one opaque element.
DOMPurifySanitize(html) == <<"DOMPurify.sanitize(html)">>

\* sanitizeHtml (lines 28-39).
sanitizeHtml(html, window) ==
    IF ~window THEN StripTags(html) ELSE DOMPurifySanitize(html)

\* A surrogate code unit of s that is not half of a pair.
HasLoneSurrogate(s) ==
    \E i \in 1..Len(s) :
        \/ s[i] = HI /\ (i = Len(s) \/ s[i + 1] # LO)
        \/ s[i] = LO /\ (i = 1 \/ s[i - 1] # HI)

\* The characters encodeURIComponent leaves as they are.
UriUnreserved ==
    Range(UpperLetters) \cup Range(LowerLetters) \cup Range(Digits)
        \cup {"-", "_", ".", "!", "~", "*", "'", "(", ")"}

\* The UTF-8 bytes, percent-encoded, of the other characters the model draws.
UriPercentTable ==
    [c \in {" ", "\"", "#", "$", "%", "&", "+", ",", "/", ":", ";", "<", "=", ">", "?",
            "@", "\\", NUL, LF, CR, LS} |->
        CASE c = " " -> Chars("%20") [] c = "\"" -> Chars("%22") [] c = "#" -> Chars("%23")
          [] c = "$" -> Chars("%24") [] c = "%" -> Chars("%25") [] c = "&" -> Chars("%26")
          [] c = "+" -> Chars("%2B") [] c = "," -> Chars("%2C") [] c = "/" -> Chars("%2F")
          [] c = ":" -> Chars("%3A") [] c = ";" -> Chars("%3B") [] c = "<" -> Chars("%3C")
          [] c = "=" -> Chars("%3D") [] c = ">" -> Chars("%3E") [] c = "?" -> Chars("%3F")
          [] c = "@" -> Chars("%40") [] c = "\\" -> Chars("%5C") [] c = NUL -> Chars("%00")
          [] c = LF -> Chars("%0A") [] c = CR -> Chars("%0D") [] c = LS -> Chars("%E2%80%A8")]

\* encodeURIComponent on a string without lone surrogates; the pair HI LO is
\* U+1F600, four UTF-8 bytes.
RECURSIVE UriEncode(_)
UriEncode(s) ==
    IF s = <<>> THEN <<>>
    ELSE IF Head(s) = HI THEN Chars("%F0%9F%98%80") \o UriEncode(Tail(Tail(s)))
    ELSE IF Head(s) \in UriUnreserved THEN <<Head(s)>> \o UriEncode(Tail(s))
    ELSE UriPercentTable[Head(s)] \o UriEncode(Tail(s))

\* encodeUrlParam (lines 45-47): encodeURIComponent throws a URIError when
\* its argument has a lone surrogate.
encodeUrlParam(s) ==
    IF HasLoneSurrogate(s) THEN [thrown |-> "URIError", value |-> <<>>]
    ELSE [thrown |-> "none", value |-> UriEncode(s)]

\* JSON.stringify of one code unit of a string, i being its place in s: the
\* quote, the backslash and the control characters are escaped, a lone
\* surrogate is written \uXXXX, everything else (U+2028 too) is left raw.
JsonQuoteAt(s, i) ==
    CASE s[i] = "\"" -> Chars("\\\"")
      [] s[i] = "\\" -> Chars("\\\\")
      [] s[i] = LF -> Chars("\\n")
      [] s[i] = CR -> Chars("\\r")
      [] s[i] = NUL -> Chars("\\u0000")
      [] s[i] = HI /\ (i = Len(s) \/ s[i + 1] # LO) -> Chars("\\ud83d")
      [] s[i] = LO /\ (i = 1 \/ s[i - 1] # HI) -> Chars("\\ude00")
      [] OTHER -> <<s[i]>>

\* escapeForJs (lines 53-55): JSON.stringify(str), the quoted string.
escapeForJs(s) == <<"\"">> \o Concat([i \in 1..Len(s) |-> JsonQuoteAt(s, i)]) \o <<"\"">>

\* U+FFFD, which CSS.escape puts for U+0000.
REPLACEMENT == "FFFD"

\* CSS.escape of one code unit, i being its place in s (CSSOM, serialize an
\* identifier): code point escapes for control characters and for a leading
\* digit, a backslash before other ASCII punctuation, the rest as it is.
CssEscapeAt(s, i) ==
    CASE s[i] = NUL -> <<REPLACEMENT>>
      [] s[i] = LF -> Chars("\\a ")
      [] s[i] = CR -> Chars("\\d ")
      [] IsDigit(s[i]) /\ (i = 1 \/ (i = 2 /\ s[1] = "-")) -> <<"\\", "3", s[i], " ">>
      [] s[i] = "-" /\ i = 1 /\ Len(s) = 1 -> Chars("\\-")
      [] s[i] \in {HI, LO, LS} -> <<s[i]>>
      [] IsAlpha(s[i]) \/ IsDigit(s[i]) \/ s[i] \in {"-", "_"} -> <<s[i]>>
      [] OTHER -> <<"\\", s[i]>>

CssEscape(s) == Concat([i \in 1..Len(s) |-> CssEscapeAt(s, i)])

\* [a-zA-Z0-9-_] (line 66).
CssIdentChars ==
    Range(UpperLetters) \cup Range(LowerLetters) \cup Range(Digits) \cup {"-", "_"}

\* escapeCss (lines 61-67).
escapeCss(s, cssEscape) ==
    IF cssEscape THEN CssEscape(s) ELSE SelectSeq(s, LAMBDA c : c \in CssIdentChars)

\* The strings the model draws: every string of at most MaxStrLen characters
\* of EncoderAlphabet, and some longer ones.
EncoderAlphabet == {"&", "<", ">", "\"", "'", "a", "7", "\\", HI, LO, LF, NUL}

MaxStrLen == 3

LongerStrings ==
    {Chars("<script>alert('x')</script>"), Chars("</script>"), Chars("x</SCRIPT>"),
     Chars("<scr<b>ipt>"), Chars("<<a>b>"), Chars("<b>bold</b> & <i>it</i>"),
     Chars("a < b > c"), Chars("&lt;"), Chars("&amp;lt;"), Chars("a&b;"), Chars("&#039;"),
     Chars("a b/c?d=e"), Chars("-7"), Chars("-"), Chars("_a-Z"),
     <<"x", LS, "y">>, <<"x", CR, LF>>, <<HI, LO, "a", HI>>, <<"<", "a", LF, ">", "b">>}

EncoderInputs == (UNION {[1..n -> EncoderAlphabet] : n \in 0..MaxStrLen}) \cup LongerStrings

EncoderFrame == UNCHANGED <<guardVars, ssrfVars, uploadVars, safeNameVars,
        sanitizeVars, concurrentVars, healthVars, userVars, followVars>>

EncoderIdle ==
    /\ encoder = "none"
    /\ str = <<>>
    /\ hasWindow = FALSE
    /\ hasCssEscape = FALSE
    /\ encoded = <<>>
    /\ thrown = "none"

\* One call of escapeHtml.
EscapeHtml ==
    /\ encoder = "none"
    /\ encoder' = "escapeHtml"
    /\ \E s \in EncoderInputs :
         /\ str' = s
         /\ encoded' = escapeHtml(s)
    /\ thrown' = "none"
    /\ UNCHANGED <<hasWindow, hasCssEscape>>
    /\ EncoderFrame

\* One call of sanitizeHtml, in a runtime with or without a window.
SanitizeHtml ==
    /\ encoder = "none"
    /\ encoder' = "sanitizeHtml"
    /\ \E s \in EncoderInputs, w \in BOOLEAN :
         /\ str' = s
         /\ hasWindow' = w
         /\ encoded' = sanitizeHtml(s, w)
    /\ thrown' = "none"
    /\ UNCHANGED hasCssEscape
    /\ EncoderFrame

\* One call of encodeUrlParam.
EncodeUrlParam ==
    /\ encoder = "none"
    /\ encoder' = "encodeUrlParam"
    /\ \E s \in EncoderInputs :
         /\ str' = s
         /\ encoded' = encodeUrlParam(s).value
         /\ thrown' = encodeUrlParam(s).thrown
    /\ UNCHANGED <<hasWindow, hasCssEscape>>
    /\ EncoderFrame

\* One call of escapeForJs.
EscapeForJs ==
    /\ encoder = "none"
    /\ encoder' = "escapeForJs"
    /\ \E s \in EncoderInputs :
         /\ str' = s
         /\ encoded' = escapeForJs(s)
    /\ thrown' = "none"
    /\ UNCHANGED <<hasWindow, hasCssEscape>>
    /\ EncoderFrame

\* One call of escapeCss, in a runtime with or without CSS.escape.
EscapeCss ==
    /\ encoder = "none"
    /\ encoder' = "escapeCss"
    /\ \E s \in EncoderInputs, c \in BOOLEAN :
         /\ str' = s
         /\ hasCssEscape' = c
         /\ encoded' = escapeCss(s, c)
    /\ thrown' = "none"
    /\ UNCHANGED hasWindow
    /\ EncoderFrame

\* The caller is done with what the call gave it.
EncoderDone ==
    /\ encoder # "none"
    /\ encoder' = "none"
    /\ str' = <<>>
    /\ hasWindow' = FALSE
    /\ hasCssEscape' = FALSE
    /\ encoded' = <<>>
    /\ thrown' = "none"
    /\ EncoderFrame

NextEncoder ==
    \/ EscapeHtml
    \/ SanitizeHtml
    \/ EncodeUrlParam
    \/ EscapeForJs
    \/ EscapeCss
    \/ EncoderDone

-----------------------------------------------------------------------------
(* src/app/api/health/route.ts *)

\* new Date().toISOString() (line 14) at the times the model draws.
Timestamps ==
    {"2026-01-01T00:00:00.000Z", "2026-01-01T00:00:30.000Z", "2026-06-15T12:00:00.000Z",
     "2026-12-31T23:59:59.999Z"}

\* The `error` field the two checks resolve with: "null", or an error object
\* named here by its code.
DbErrors == {"null", "42P01", "PGRST301"}
AuthErrors == {"null", "AuthSessionMissingError", "AuthRetryableFetchError"}

\* What an await of the try block can reject with.
Rejections ==
    {"TypeError: fetch failed", "Error: cookies() outside request scope",
     "Error: supabaseUrl is required."}

NoChecks == [status |-> "none", timestamp |-> "", database |-> FALSE, auth |-> FALSE]

NoHealthResponse == [status |-> 0, body |-> NoChecks, error |-> "none"]

\* Faulty variant of HealthStatusCode: the endpoint always answers 200.
HealthStatusCode_Always200(allHealthy) == 200

\* status: allHealthy ? 200 : 503 (line 40).
HealthStatusCode(allHealthy) == IF allHealthy THEN 200 ELSE 503

HealthFrame == UNCHANGED <<guardVars, ssrfVars, uploadVars, safeNameVars, sanitizeVars,
        encoderVars, concurrentVars, userVars, followVars>>

HealthIdle ==
    /\ healthPc = "idle"
    /\ checks = NoChecks
    /\ dbError = "pending"
    /\ authError = "pending"
    /\ caught = "none"
    /\ healthResponse = NoHealthResponse

\* GET() starts: `checks` is built (lines 12-19) and createClient() is
\* awaited (line 22).
HealthGet ==
    /\ healthPc = "idle"
    /\ \E t \in Timestamps :
         checks' = [status |-> "healthy", timestamp |-> t, database |-> FALSE, auth |-> FALSE]
    /\ healthPc' = "createClient"
    /\ UNCHANGED <<dbError, authError, caught, healthResponse>>
    /\ HealthFrame

\* createClient() resolves; the database query is awaited (lines 25-28).
ClientCreated ==
    /\ healthPc = "createClient"
    /\ healthPc' = "select"
    /\ UNCHANGED <<checks, dbError, authError, caught, healthResponse>>
    /\ HealthFrame

\* The query resolves with { error }; line 29, then getSession() is awaited.
SelectResolves ==
    /\ healthPc = "select"
    /\ \E e \in DbErrors :
         /\ dbError' = e
         /\ checks' = [checks EXCEPT !.database = (e = "null")]
    /\ healthPc' = "getSession"
    /\ UNCHANGED <<authError, caught, healthResponse>>
    /\ HealthFrame

\* getSession() resolves with { error }; lines 33-44 run to the return.
GetSessionResolves ==
    /\ healthPc = "getSession"
    /\ \E e \in AuthErrors :
         LET allHealthy == checks.database /\ (e = "null")
             final == [checks EXCEPT !.auth = (e = "null"),
                                     !.status = IF allHealthy THEN "healthy" ELSE "degraded"]
         IN /\ authError' = e
            /\ checks' = final
            /\ healthResponse' = [status |-> HealthStatusCode(allHealthy), body |-> final,
                                  error |-> "none"]
    /\ healthPc' = "responded"
    /\ UNCHANGED <<dbError, caught>>
    /\ HealthFrame

\* The awaited promise rejects; the catch clause answers (lines 45-50).
HealthCatch ==
    /\ healthPc \in {"createClient", "select", "getSession"}
    /\ \E e \in Rejections :
         /\ caught' = e
         /\ healthResponse' = [status |-> 503,
                               body |-> [checks EXCEPT !.status = "unhealthy"],
                               error |-> e]
    /\ healthPc' = "responded"
    /\ UNCHANGED <<checks, dbError, authError>>
    /\ HealthFrame

\* The response is sent; the next GET starts from scratch.
HealthDone ==
    /\ healthPc = "responded"
    /\ healthPc' = "idle"
    /\ checks' = NoChecks
    /\ dbError' = "pending"
    /\ authError' = "pending"
    /\ caught' = "none"
    /\ healthResponse' = NoHealthResponse
    /\ HealthFrame

NextHealth ==
    \/ HealthGet
    \/ ClientCreated
    \/ SelectResolves
    \/ GetSessionResolves
    \/ HealthCatch
    \/ HealthDone

-----------------------------------------------------------------------------
(* A client following the redirects of src/middleware.ts, its session unchanged *)

\* The pathname of the request a client makes for a Location: what comes
\* before the query.
PathnameOf(location) == Split(location, "?")[1]

\* Redirects a client follows before it gives up.
MaxHops == 3

FollowFrame == UNCHANGED <<guardVars, ssrfVars, uploadVars, safeNameVars, sanitizeVars,
        encoderVars, concurrentVars, healthVars, userVars>>

FollowIdle ==
    /\ navPc = "idle"
    /\ navPath = <<>>
    /\ navUser = FALSE
    /\ navHops = 0

\* A client with or without a session asks for a path.
Navigate ==
    /\ navPc = "idle"
    /\ navPc' = "requesting"
    /\ \E p \in Paths : navPath' = p
    /\ \E user \in BOOLEAN : navUser' = user
    /\ navHops' = 0
    /\ FollowFrame

\* config.matcher (lines 81-92) leaves the request out: it goes to its route.
NavigationSkipsMiddleware ==
    /\ navPc = "requesting"
    /\ ~MatcherMatches(navPath)
    /\ navPc' = "passed"
    /\ UNCHANGED <<navPath, navUser, navHops>>
    /\ FollowFrame

\* middleware() returns response (line 78): the request goes to its route.
NavigationPasses ==
    /\ navPc = "requesting"
    /\ MatcherMatches(navPath)
    /\ Decide(navPath, navUser, NextResponseNext).kind = "next"
    /\ navPc' = "passed"
    /\ UNCHANGED <<navPath, navUser, navHops>>
    /\ FollowFrame

\* middleware() returns a redirect (lines 68, 75) and the client asks for
\* its Location.
NavigationRedirected ==
    /\ navPc = "requesting"
    /\ navHops < MaxHops
    /\ MatcherMatches(navPath)
    /\ LET resp == Decide(navPath, navUser, NextResponseNext) IN
        /\ resp.kind = "redirect"
        /\ navPath' = PathnameOf(resp.location)
    /\ navHops' = navHops + 1
    /\ UNCHANGED <<navPc, navUser>>
    /\ FollowFrame

\* getUser() rejects (lines 54-56): the request ends in an error.
NavigationFails ==
    /\ navPc = "requesting"
    /\ MatcherMatches(navPath)
    /\ navPc' = "error"
    /\ UNCHANGED <<navPath, navUser, navHops>>
    /\ FollowFrame

\* The navigation is over.
NavigationEnds ==
    /\ navPc \in {"passed", "error"}
    /\ navPc' = "idle"
    /\ navPath' = <<>>
    /\ navUser' = FALSE
    /\ navHops' = 0
    /\ FollowFrame

NextFollow ==
    \/ Navigate
    \/ NavigationSkipsMiddleware
    \/ NavigationPasses
    \/ NavigationRedirected
    \/ NavigationFails
    \/ NavigationEnds

-----------------------------------------------------------------------------
(* src/hooks/useUser.ts and UserService (unnamed/part_001) *)

\* A field that is not there (undefined), and the null of { data, error }.
Undefined == "undefined"
Null == "null"

UserIds == {"", "u1", "u2"}

Updates == {"display_name: Ann", "display_name: Bob"}

\* What the three operations can get from the backend: rows and no error, or
\* no data and an error (its message). single() turns "no row" into an error,
\* and the client turns a failed fetch into an error as well.
ErrorMessages == {"JWT expired", "JSON object requested, multiple (or no) rows returned",
                  "TypeError: Failed to fetch"}

RowsFor(h, v) ==
    CASE h = "useUser" -> {"row of " \o v.userId}
      [] h = "useUsers" -> {"[]", "[row of u1, row of u2]"}
      [] h = "useUpdateUser" -> {"row of " \o v.userId \o " with " \o v.updates}

Replies(h, v) ==
    {[data |-> d, error |-> Null] : d \in RowsFor(h, v)}
        \cup {[data |-> Null, error |-> m] : m \in ErrorMessages}

\* Faulty variant of ApiResponseOf: the error of the backend is dropped.
ApiResponseOf_IgnoresError(r) == [success |-> TRUE, data |-> r.data, error |-> Undefined]

\* Lines 43-44, 65-66 and 80-81 of part_001, the same in the three operations.
ApiResponseOf(r) ==
    IF r.error # Null THEN [success |-> FALSE, data |-> Undefined, error |-> r.error]
    ELSE [success |-> TRUE, data |-> r.data, error |-> Undefined]

\* Faulty variant of InvalidatedOnSuccess: the list query is left alone.
InvalidatedOnSuccess_NoList(userId) == {<<"users", userId>>}

\* onSuccess (lines 71-75): the keys given to queryClient.invalidateQueries.
InvalidatedOnSuccess(userId) == {<<"users", userId>>, <<"users">>}

\* Failed attempts after which useQuery stops calling its queryFn again: no
\* retry option is given at lines 20 and 38, and the library retries three
\* times unless told otherwise. useMutation does not retry.
MaxQueryRetries == 3

NoVariables == [userId |-> "", updates |-> ""]
NoReply == [data |-> Null, error |-> Null]
NoResult == [success |-> FALSE, data |-> Undefined, error |-> Undefined]
NoQuery == [status |-> "none", data |-> Undefined, error |-> Undefined]
PendingQuery == [status |-> "pending", data |-> Undefined, error |-> Undefined]

UserFrame == UNCHANGED <<guardVars, ssrfVars, uploadVars, safeNameVars, sanitizeVars,
        encoderVars, concurrentVars, healthVars, followVars>>

UserIdle ==
    /\ hook = "none"
    /\ hookPc = "idle"
    /\ variables = NoVariables
    /\ reply = NoReply
    /\ apiResponse = NoResult
    /\ query = NoQuery
    /\ failureCount = 0
    /\ fetchCount = 0
    /\ invalidated = {}

\* A component renders useUser(userId) (lines 19-29): the query is pending,
\* and its queryFn runs only when enabled, that is when userId is not empty.
UseUser ==
    /\ hook = "none"
    /\ hook' = "useUser"
    /\ \E userId \in UserIds :
         /\ variables' = [userId |-> userId, updates |-> ""]
         /\ hookPc' = IF userId # "" THEN "calling" ELSE "disabled"
         /\ fetchCount' = IF userId # "" THEN 1 ELSE 0
    /\ query' = PendingQuery
    /\ UNCHANGED <<reply, apiResponse, failureCount, invalidated>>
    /\ UserFrame

\* A component renders useUsers() (lines 37-46).
UseUsers ==
    /\ hook = "none"
    /\ hook' = "useUsers"
    /\ variables' = NoVariables
    /\ hookPc' = "calling"
    /\ fetchCount' = 1
    /\ query' = PendingQuery
    /\ UNCHANGED <<reply, apiResponse, failureCount, invalidated>>
    /\ UserFrame

\* mutate({ userId, updates }) of useUpdateUser (lines 56-70).
Mutate ==
    /\ hook = "none"
    /\ hook' = "useUpdateUser"
    /\ \E userId \in UserIds, updates \in Updates :
         variables' = [userId |-> userId, updates |-> updates]
    /\ hookPc' = "calling"
    /\ fetchCount' = 1
    /\ query' = PendingQuery
    /\ UNCHANGED <<reply, apiResponse, failureCount, invalidated>>
    /\ UserFrame

\* The backend answers and the UserService operation returns its ApiResponse
\* (part_001 lines 35-45, 53-67, 73-82).
ServiceReturns ==
    /\ hookPc = "calling"
    /\ \E r \in Replies(hook, variables) :
         /\ reply' = r
         /\ apiResponse' = ApiResponseOf(r)
    /\ hookPc' = "returned"
    /\ UNCHANGED <<hook, variables, query, failureCount, fetchCount, invalidated>>
    /\ UserFrame

\* The queryFn of useUser / useUsers goes on after its await (lines 24-25,
\* 42-43) and returns result.data: the query succeeds.
QuerySucceeds ==
    /\ hookPc = "returned"
    /\ hook \in {"useUser", "useUsers"}
    /\ apiResponse.success
    /\ query' = [status |-> "success", data |-> apiResponse.data, error |-> Undefined]
    /\ hookPc' = "settled"
    /\ UNCHANGED <<hook, variables, reply, apiResponse, failureCount, fetchCount, invalidated>>
    /\ UserFrame

\* The queryFn throws new Error(result.error) (lines 24, 42): the library
\* calls it again until MaxQueryRetries attempts have failed, then reports the
\* error.
QueryFails ==
    /\ hookPc = "returned"
    /\ hook \in {"useUser", "useUsers"}
    /\ ~apiResponse.success
    /\ failureCount' = failureCount + 1
    /\ IF failureCount < MaxQueryRetries
       THEN /\ hookPc' = "calling"
            /\ fetchCount' = fetchCount + 1
            /\ UNCHANGED query
       ELSE /\ hookPc' = "settled"
            /\ query' = [status |-> "error", data |-> Undefined, error |-> apiResponse.error]
            /\ UNCHANGED fetchCount
    /\ UNCHANGED <<hook, variables, reply, apiResponse, invalidated>>
    /\ UserFrame

\* The mutationFn goes on after its await (lines 68-69); on success onSuccess
\* runs (lines 71-75), on failure the mutation ends in error.
MutationSettles ==
    /\ hookPc = "returned"
    /\ hook = "useUpdateUser"
    /\ IF apiResponse.success
       THEN /\ query' = [status |-> "success", data |-> apiResponse.data, error |-> Undefined]
            /\ invalidated' = InvalidatedOnSuccess(variables.userId)
       ELSE /\ query' = [status |-> "error", data |-> Undefined, error |-> apiResponse.error]
            /\ UNCHANGED invalidated
    /\ hookPc' = "settled"
    /\ UNCHANGED <<hook, variables, reply, apiResponse, failureCount, fetchCount>>
    /\ UserFrame

\* The component unmounts.
Unmount ==
    /\ hookPc \in {"settled", "disabled"}
    /\ hook' = "none"
    /\ hookPc' = "idle"
    /\ variables' = NoVariables
    /\ reply' = NoReply
    /\ apiResponse' = NoResult
    /\ query' = NoQuery
    /\ failureCount' = 0
    /\ fetchCount' = 0
    /\ invalidated' = {}
    /\ UserFrame

NextUser ==
    \/ UseUser
    \/ UseUsers
    \/ Mutate
    \/ ServiceReturns
    \/ QuerySucceeds
    \/ QueryFails
    \/ MutationSettles
    \/ Unmount

-----------------------------------------------------------------------------
(* Specifications *)

SsrfIdle ==
    /\ ssrfUrlString = <<>>
    /\ ssrfUrl = ParseFailure
    /\ ssrfResult = "none"
    /\ ssrfInternal = "none"

UploadIdle == uploadFile = NoFile /\ uploadResult = "none" /\ uploadBytesRead = FALSE

Init ==
    /\ GuardIdle
    /\ SsrfIdle
    /\ UploadIdle
    /\ SafeNameIdle
    /\ SanitizeIdle
    /\ EncoderIdle
    /\ ConcurrentIdle
    /\ HealthIdle
    /\ UserIdle
    /\ FollowIdle

Spec == Init /\ [][Next]_vars

SpecSsrf == Init /\ [][NextSsrf]_vars

SpecUpload == Init /\ [][NextUpload]_vars

SpecSafeName == Init /\ [][NextSafeName]_vars

SpecSanitize == Init /\ [][NextSanitize]_vars

SpecEncoder == Init /\ [][NextEncoder]_vars

SpecConcurrent == Init /\ [][NextConcurrent]_vars

SpecHealth == Init /\ [][NextHealth]_vars

SpecUser == Init /\ [][NextUser]_vars

SpecFollow == Init /\ [][NextFollow]_vars

-----------------------------------------------------------------------------
(* Route Guard claims *)

\* The prefix sets as the claims name them.
ClaimProtectedPrefixes == {Chars("/dashboard"), Chars("/settings"), Chars("/admin")}
ClaimAuthOnlyPrefixes == {Chars("/login"), Chars("/signup")}
ClaimProtected(p) == \E r \in ClaimProtectedPrefixes : StartsWith(p, r)
ClaimAuthOnly(p) == \E r \in ClaimAuthOnlyPrefixes : StartsWith(p, r)

\* What URLSearchParams.get reads back from a serialised value.
RECURSIVE FormDecode(_)
FormDecode(s) ==
    IF s = <<>> THEN <<>>
    ELSE IF Head(s) = "+" THEN <<" ">> \o FormDecode(Tail(s))
    ELSE IF /\ Head(s) = "%"
            /\ Len(s) >= 3
            /\ \E c \in DOMAIN PercentTable : PercentTable[c] = SubSeq(s, 1, 3)
    THEN <<CHOOSE c \in DOMAIN PercentTable : PercentTable[c] = SubSeq(s, 1, 3)>>
            \o FormDecode(SubSeq(s, 4, Len(s)))
    ELSE <<Head(s)>> \o FormDecode(Tail(s))

LoginWithRedirect == Chars("/login?redirect=")

\* The value of the only query parameter of a /login?redirect=... location.
RedirectParam(location) ==
    FormDecode(SubSeq(location, Len(LoginWithRedirect) + 1, Len(location)))

IsLoginRedirectFor(out, pathname) ==
    /\ out.kind = "redirect"
    /\ StartsWith(out.location, LoginWithRedirect)
    /\ ~\E i \in (Len(LoginWithRedirect) + 1)..Len(out.location) :
            out.location[i] \in {"&", "#", "?", "="}
    /\ RedirectParam(out.location) = pathname

MiddlewareReturned == pc \in {"responded", "done"} /\ invoked = 1

C2_FailClosedNeverAnError ==
    (MiddlewareReturned /\ getUserResult \in {"error", "threw"})
        => /\ outcome.kind \in {"next", "redirect"}
           /\ ClaimProtected(request.pathname)
                => IsLoginRedirectFor(outcome, request.pathname)

\* C3: no request to a path under a protected prefix reaches its handler
\* unless the middleware ran for it exactly once.
C3_GuardRunsBeforeEveryProtectedHandler ==
    (handlerReached /\ ClaimProtected(request.pathname)) => invoked = 1

\* C4: when the middleware runs for a path under /login or /signup and getUser
\* returned a user, it returns a redirect to /dashboard.
C4_AuthOnlyAuthenticatedRedirectsToLanding ==
    (/\ MiddlewareReturned
     /\ ClaimAuthOnly(request.pathname)
     /\ getUserResult = "user")
        => /\ outcome.kind = "redirect"
           /\ outcome.location = Chars("/dashboard")
           /\ ~handlerReached

C4_Witness ==
    /\ pc = "done"
    /\ request.pathname = Chars("/signup/users")
    /\ getUserResult = "user"
    /\ outcome.kind = "redirect"

C26_RefreshedCookiesOnlyOnPassthrough ==
    (pc \in {"responded", "done"} /\ invoked = 1) =>
        /\ outcome.kind = "next" => outcome.cookies = response.cookies
        /\ outcome.kind = "redirect" => \A n \in CookieNames : outcome.cookies[n] = NoCookie

\* setAll wrote a cookie and the middleware then returned a redirect.
C26_Witness ==
    /\ pc = "responded"
    /\ setAllCalls = 1
    /\ \E n \in CookieNames : response.cookies[n] # NoCookie
    /\ outcome.kind = "redirect"
    /\ \A n \in CookieNames : outcome.cookies[n] = NoCookie

\* setAll wrote a cookie and the middleware then passed the request through.
C26_WitnessPassthrough ==
    /\ pc = "responded"
    /\ setAllCalls = 1
    /\ outcome.kind = "next"
    /\ \E n \in CookieNames : outcome.cookies[n] # NoCookie

\* C25: with the session unchanged, a client that follows the redirects of
\* the middleware is redirected at most once: after one redirect the request
\* it makes is not redirected again, /login is not protected, /dashboard is
\* not auth-only, and no path is both protected and auth-only.
C25_NoRedirectLoop ==
    /\ navHops <= 1
    /\ (navPc = "requesting" /\ navHops = 1) =>
            /\ ~(ClaimProtected(navPath) /\ ~navUser)
            /\ ~(ClaimAuthOnly(navPath) /\ navUser)
    /\ navPc = "passed" =>
            /\ ~(MatcherMatches(navPath) /\ ClaimProtected(navPath) /\ ~navUser)
            /\ ~(MatcherMatches(navPath) /\ ClaimAuthOnly(navPath) /\ navUser)
    /\ ~ClaimProtected(Chars("/login"))
    /\ ~ClaimAuthOnly(Chars("/dashboard"))
    /\ \A p \in Paths : ~(ClaimProtected(p) /\ ClaimAuthOnly(p))

\* A signed-out client asked for a protected path, was sent to /login and
\* got it.
C25_Witness ==
    /\ navPc = "passed"
    /\ navHops = 1
    /\ ~navUser
    /\ navPath = Chars("/login")

-----------------------------------------------------------------------------
(* SSRF Guard claims *)

\* The rejection kind of each outcome of validateExternalUrl.
KindOf(result) ==
    CASE result = "Invalid URL format" -> "InvalidUrl"
      [] result \in {"Blocked protocol", "Blocked scheme detected"} -> "BlockedScheme"
      [] result \in {"Blocked host", "Private IP range blocked"} -> "BlockedHost"
      [] result = "true" -> "Allowed"
      [] OTHER -> "None"

SsrfValidated == ssrfResult \notin {"none", "called"}

IsHttpUrl == ssrfUrl.ok /\ ssrfUrl.protocol \in {Chars("http:"), Chars("https:")}

ClaimDangerousSchemes == {Chars("file:"), Chars("ftp:"), Chars("gopher:"), Chars("dict:"), Chars("ldap:")}

ClaimHasDangerousSubstring(raw) ==
    \E d \in ClaimDangerousSchemes : Includes(ToLowerCase(raw), d)

ClaimDenylist ==
    {Chars("localhost"), Chars("127.0.0.1"), Chars("0.0.0.0"), Chars("169.254.169.254"),
     Chars("metadata.google.internal"), Chars("metadata.azure.com")}

IsDottedQuad(h) ==
    LET parts == Split(h, ".") IN
    /\ Len(parts) = 4
    /\ \A i \in 1..4 : /\ Len(parts[i]) \in 1..3
                       /\ \A j \in 1..Len(parts[i]) : IsDigit(parts[i][j])
                       /\ NumberOf(parts[i], 10) <= 255

QuadOf(h) == [i \in 1..4 |-> NumberOf(Split(h, ".")[i], 10)]

\* 10/8, 172.16/12, 192.168/16, 127/8, 0/8, 169.254/16, by number.
InPrivateIPv4Range(o) ==
    \/ o[1] = 10
    \/ o[1] = 172 /\ o[2] \in 16..31
    \/ o[1] = 192 /\ o[2] = 168
    \/ o[1] = 127
    \/ o[1] = 0
    \/ o[1] = 169 /\ o[2] = 254

HostIsPrivateIPv4 == IsDottedQuad(ssrfUrl.hostname) /\ InPrivateIPv4Range(QuadOf(ssrfUrl.hostname))

HostInDenylist == ToLowerCase(ssrfUrl.hostname) \in ClaimDenylist

\* C6: every parsable URL whose scheme is not http or https is rejected with
\* BlockedScheme, whatever its host.
C6_NonHttpSchemeIsBlockedScheme ==
    (SsrfValidated /\ ssrfUrl.ok /\ ~IsHttpUrl) => KindOf(ssrfResult) = "BlockedScheme"

C6_Witness ==
    /\ ssrfUrlString = Chars("ws://localhost/")
    /\ ssrfUrl.protocol = Chars("ws:")
    /\ ssrfResult = "Blocked protocol"

\* C7 as stated: every http/https URL whose hostname is in the denylist or is
\* an IPv4 literal of a private range is rejected with BlockedHost.
C7_Original_AlwaysBlockedHost ==
    (SsrfValidated /\ IsHttpUrl /\ (HostInDenylist \/ HostIsPrivateIPv4))
        => KindOf(ssrfResult) = "BlockedHost"

\* C7 amended: such a URL is never allowed; it is rejected with BlockedHost,
\* unless the raw string also contains a dangerous scheme substring, which is
\* checked first and rejects it with BlockedScheme. An http/https URL whose
\* host is an IPv4 literal outside the ranges and the denylist, with no
\* dangerous substring, is allowed.
C7_BlockedHostNeverAllowed ==
    /\ (SsrfValidated /\ IsHttpUrl /\ (HostInDenylist \/ HostIsPrivateIPv4))
        => KindOf(ssrfResult) =
            IF ClaimHasDangerousSubstring(ssrfUrlString) THEN "BlockedScheme" ELSE "BlockedHost"
    /\ (/\ SsrfValidated /\ IsHttpUrl
        /\ IsDottedQuad(ssrfUrl.hostname)
        /\ ~HostInDenylist /\ ~HostIsPrivateIPv4
        /\ ~ClaimHasDangerousSubstring(ssrfUrlString))
        => ssrfResult = "true"

C7_Witness ==
    /\ ssrfUrlString = Chars("https://172.31.0.254/")
    /\ ssrfResult = "Private IP range blocked"

\* The eight pieces of a bracketed IPv6 hostname, or <<>>.
HostIPv6Pieces ==
    LET h == ssrfUrl.hostname IN
    IF Len(h) >= 2 /\ h[1] = "[" /\ h[Len(h)] = "]"
    THEN IPv6Pieces(SubSeq(h, 2, Len(h) - 1)) ELSE <<>>

\* ::1, fc00::/7 (fc00-fdff) and fe80::/10 (fe80-febf), by number.
InBlockedIPv6Range(ps) ==
    \/ ps = <<0, 0, 0, 0, 0, 0, 0, 1>>
    \/ ps[1] \in 64512..65023
    \/ ps[1] \in 65152..65215

\* C8: every http/https URL whose host is an IPv6 literal that is ::1 or lies
\* in fc00::/7 or fe80::/10 is rejected with BlockedHost (stated for raw
\* strings without a dangerous scheme substring, which are decided earlier).
C8_PrivateIPv6IsBlockedHost ==
    (/\ SsrfValidated /\ IsHttpUrl
     /\ HostIPv6Pieces # <<>>
     /\ InBlockedIPv6Range(HostIPv6Pieces)
     /\ ~ClaimHasDangerousSubstring(ssrfUrlString))
        => KindOf(ssrfResult) = "BlockedHost"

\* C9 as stated: every raw string that contains a dangerous scheme substring
\* is rejected with BlockedScheme.
C9_Original_AlwaysBlockedScheme ==
    (SsrfValidated /\ ClaimHasDangerousSubstring(ssrfUrlString))
        => KindOf(ssrfResult) = "BlockedScheme"

\* C9 amended: a raw string that contains a dangerous scheme substring is
\* never allowed; it is rejected with BlockedScheme when it parses as a URL
\* (also when the parsed scheme is http or https) and with InvalidUrl when it
\* does not.
C9_DangerousSubstringRejected ==
    (SsrfValidated /\ ClaimHasDangerousSubstring(ssrfUrlString))
        => KindOf(ssrfResult) = IF ssrfUrl.ok THEN "BlockedScheme" ELSE "InvalidUrl"

C9_Witness ==
    /\ ssrfUrlString = Chars("https://example.com/FTP:x")
    /\ IsHttpUrl
    /\ ssrfResult = "Blocked scheme detected"

\* The private-IP patterns, as prefixes of the lower-cased hostname.
ClaimPrivatePrefixes ==
    {Chars("10."), Chars("192.168."), Chars("127."), Chars("0."), Chars("169.254."),
     Chars("fc00:"), Chars("fe80:")}
        \cup {Chars("172.") \o ToDecimal(n) \o <<".">> : n \in 16..31}

ClaimMatchesPrivatePattern(h) ==
    \/ \E prefix \in ClaimPrivatePrefixes : StartsWith(h, prefix)
    \/ h = Chars("::1")

\* The five checks in their order, each with the kind of its rejection, and
\* whether the validated input fails it.
ClaimSsrfChecks == <<"InvalidUrl", "BlockedScheme", "BlockedScheme", "BlockedHost", "BlockedHost">>

ClaimFailsSsrfCheck(i) ==
    CASE i = 1 -> ~ssrfUrl.ok
      [] i = 2 -> ~IsHttpUrl
      [] i = 3 -> ClaimHasDangerousSubstring(ssrfUrlString)
      [] i = 4 -> HostInDenylist
      [] i = 5 -> ClaimMatchesPrivatePattern(ToLowerCase(ssrfUrl.hostname))

ClaimFailedSsrfChecks == {i \in 1..5 : ClaimFailsSsrfCheck(i)}

\* C24: the outcome of validateExternalUrl is the rejection of the first
\* check, in the order parse, parsed scheme, dangerous substring of the raw
\* string, denylist, private-IP pattern, that the input fails; it returns
\* true exactly when the input fails none, and it never returns false.
C24_FirstFailingCheckDecides ==
    SsrfValidated =>
        /\ ssrfResult # "false"
        /\ (ssrfResult = "true") <=> (ClaimFailedSsrfChecks = {})
        /\ ClaimFailedSsrfChecks # {} =>
                LET first == CHOOSE i \in ClaimFailedSsrfChecks :
                                \A j \in ClaimFailedSsrfChecks : i <= j
                IN KindOf(ssrfResult) = ClaimSsrfChecks[first]

\* A denylisted host with a dangerous substring in the query: the substring
\* check comes first.
C24_Witness ==
    /\ ssrfUrlString = Chars("http://localhost/?next=file:///etc/passwd")
    /\ ClaimFailedSsrfChecks = {3, 4}
    /\ ssrfResult = "Blocked scheme detected"

\* C29: isInternalUrl always returns a boolean, false exactly for the strings
\* validateExternalUrl accepts and true for every string it rejects, those
\* that are no URL included.
C29_IsInternalNegatesAcceptance ==
    (SsrfValidated /\ ssrfInternal # "none") =>
        /\ ssrfInternal \in {"true", "false"}
        /\ (ssrfInternal = "false") <=> (ssrfResult = "true")
        /\ (ssrfInternal = "false") <=> (ClaimFailedSsrfChecks = {})
        /\ ~ssrfUrl.ok => ssrfInternal = "true"

\* isInternalUrl was given a string that is no URL and returned true.
C29_Witness ==
    /\ ssrfUrlString = Chars("not a url")
    /\ ssrfResult = "Invalid URL format"
    /\ ssrfInternal = "true"

\* isInternalUrl was given an acceptable URL and returned false.
C29_WitnessExternal ==
    /\ ssrfUrlString = Chars("https://example.com/")
    /\ ssrfResult = "true"
    /\ ssrfInternal = "false"

-----------------------------------------------------------------------------
(* Upload Validator claims *)

UploadValidated == uploadResult \notin {"none", "called", "reading"}

ClaimMaxSize == 10485760

\* The extension of a file name: the text after its last dot, lower-cased;
\* a name without a dot has none.
ClaimHasExtension(name) == \E i \in 1..Len(name) : name[i] = "."

ClaimExtension(name) == ToLowerCase(From(name, LastIndex(name, {"."}) + 1))

ClaimAllowedExtensions ==
    {Chars("jpg"), Chars("jpeg"), Chars("png"), Chars("gif"), Chars("webp"), Chars("pdf")}

ClaimSignature(type) ==
    CASE type = "image/jpeg" -> <<255, 216, 255>>
      [] type = "image/png" -> <<137, 80, 78, 71>>
      [] type = "image/gif" -> <<71, 73, 70, 56>>
      [] type = "image/webp" -> <<82, 73, 70, 70>>
      [] type = "application/pdf" -> <<37, 80, 68, 70>>
      [] OTHER -> <<>>

ClaimSizeTypeBytesOk(f) ==
    /\ f.size > 0
    /\ f.size <= ClaimMaxSize
    /\ ClaimSignature(f.type) # <<>>
    /\ Len(f.head) >= Len(ClaimSignature(f.type))
    /\ SubSeq(f.head, 1, Len(ClaimSignature(f.type))) = ClaimSignature(f.type)

\* C10: validateFileUpload accepts a file if and only if its size is in
\* (0, 10 MiB], its lower-cased extension is in the allow-list, its declared
\* content-type has a registered signature and its leading bytes equal that
\* signature.
C10_AcceptsIffAllChecksHold ==
    UploadValidated =>
        (uploadResult = "ok" <=>
            /\ ClaimSizeTypeBytesOk(uploadFile)
            /\ ClaimHasExtension(uploadFile.name)
            /\ ClaimExtension(uploadFile.name) \in ClaimAllowedExtensions)

\* C10, with the extension taken as line 38 takes it (the whole name when the
\* name has no dot): the equivalence the code does satisfy.
C10_AcceptsIffChecksHoldOnLastPart ==
    UploadValidated =>
        (uploadResult = "ok" <=>
            /\ ClaimSizeTypeBytesOk(uploadFile)
            /\ ClaimExtension(uploadFile.name) \in ClaimAllowedExtensions)

\* The accepted type an extension implies, "" when it implies none.
ClaimTypeOfExtension(ext) ==
    CASE ext \in {Chars("jpg"), Chars("jpeg")} -> "image/jpeg"
      [] ext = Chars("png") -> "image/png"
      [] ext = Chars("gif") -> "image/gif"
      [] ext = Chars("webp") -> "image/webp"
      [] ext = Chars("pdf") -> "application/pdf"
      [] OTHER -> ""

ClaimAcceptedTypes ==
    {"image/jpeg", "image/png", "image/gif", "image/webp", "application/pdf"}

\* C11: a file whose extension implies one accepted type while its declared
\* content-type is a different accepted type is rejected, whatever its leading
\* bytes; the extension and the content-type of an accepted file imply the
\* same type.
C11_ExtensionAndTypeConsistent ==
    (/\ UploadValidated
     /\ ClaimHasExtension(uploadFile.name)
     /\ ClaimTypeOfExtension(ClaimExtension(uploadFile.name)) # ""
     /\ uploadFile.type \in ClaimAcceptedTypes
     /\ ClaimTypeOfExtension(ClaimExtension(uploadFile.name)) # uploadFile.type)
        => uploadResult # "ok"

\* The five checks in the order the claim gives them, each as the contract
\* words it; the extension is the text after the last dot of the name (the
\* whole name when it has no dot, as validateFileUpload takes it).
ClaimFailsCheck(f, kind) ==
    CASE kind = "FileTooLarge" -> f.size > ClaimMaxSize
      [] kind = "EmptyFile" -> f.size = 0
      [] kind = "InvalidExtension" -> ClaimExtension(f.name) \notin ClaimAllowedExtensions
      [] kind = "InvalidMimeType" -> f.type \notin ClaimAcceptedTypes
      [] kind = "SignatureMismatch" ->
            \/ Len(f.head) < Len(ClaimSignature(f.type))
            \/ SubSeq(f.head, 1, Len(ClaimSignature(f.type))) # ClaimSignature(f.type)

ClaimCheckOrder ==
    <<"FileTooLarge", "EmptyFile", "InvalidExtension", "InvalidMimeType", "SignatureMismatch">>

\* The first check of the order that f fails, "Accepted" when it fails none.
ClaimFirstFailure(f) ==
    IF \E i \in 1..Len(ClaimCheckOrder) : ClaimFailsCheck(f, ClaimCheckOrder[i])
    THEN ClaimCheckOrder[CHOOSE i \in 1..Len(ClaimCheckOrder) :
            /\ ClaimFailsCheck(f, ClaimCheckOrder[i])
            /\ \A j \in 1..(i - 1) : ~ClaimFailsCheck(f, ClaimCheckOrder[j])]
    ELSE "Accepted"

\* The rejection kind of each outcome of validateFileUpload.
UploadKindOf(result) ==
    CASE result = "File too large" -> "FileTooLarge"
      [] result = "Empty file" -> "EmptyFile"
      [] result = "Invalid extension" -> "InvalidExtension"
      [] result = "Invalid MIME type" -> "InvalidMimeType"
      [] result = "File signature mismatch" -> "SignatureMismatch"
      [] result = "ok" -> "Accepted"
      [] OTHER -> "None"

\* C12: the outcome of validateFileUpload is the rejection kind of the first
\* check, in the order FileTooLarge, EmptyFile, InvalidExtension,
\* InvalidMimeType, SignatureMismatch, that the file fails (a zero-length file
\* is EmptyFile whatever its name and type), and the file's bytes have been
\* read only if the file passes the four earlier checks.
C12_FirstFailingCheckIsReported ==
    /\ UploadValidated => UploadKindOf(uploadResult) = ClaimFirstFailure(uploadFile)
    /\ (UploadValidated /\ uploadFile.size = 0) => uploadResult = "Empty file"
    /\ uploadBytesRead =>
            \A i \in 1..4 : ~ClaimFailsCheck(uploadFile, ClaimCheckOrder[i])

\* A file that fails the extension, the type and the signature check at once
\* is rejected for its extension, its bytes unread.
C12_Witness ==
    /\ uploadFile.name = Chars("x.jpg.exe")
    /\ uploadFile.type = "text/plain"
    /\ uploadFile.size = 3
    /\ uploadResult = "Invalid extension"
    /\ ~uploadBytesRead

ClaimEndsWithDotOrEmpty(name) == name = <<>> \/ name[Len(name)] = "."

\* C28 as stated: a name without a dot passes the extension check when the
\* whole name, lower-cased, is an allowed extension, and a name that is empty
\* or ends with a dot is rejected with InvalidExtension.
C28_Original_DotNameIsInvalidExtension ==
    /\ (/\ UploadValidated
        /\ ~ClaimHasExtension(uploadFile.name)
        /\ ToLowerCase(uploadFile.name) \in ClaimAllowedExtensions)
            => uploadResult # "Invalid extension"
    /\ (UploadValidated /\ ClaimEndsWithDotOrEmpty(uploadFile.name))
            => UploadKindOf(uploadResult) = "InvalidExtension"

\* C28 amended: for a file of a size the size checks let through, the
\* extension check rejects exactly when the lower-cased text after the last
\* dot of the name, the whole name when it has no dot, is not an allowed
\* extension; so 'pdf' and 'JPG' pass it, and a name that is empty or ends
\* with a dot is rejected with InvalidExtension, unless the file is empty or
\* too large, which is reported first.
C28_ExtensionIsTextAfterLastDot ==
    /\ (UploadValidated /\ uploadFile.size \in 1..ClaimMaxSize) =>
            ((uploadResult = "Invalid extension")
                <=> (ClaimExtension(uploadFile.name) \notin ClaimAllowedExtensions))
    /\ (/\ UploadValidated
        /\ ~ClaimHasExtension(uploadFile.name)
        /\ ToLowerCase(uploadFile.name) \in ClaimAllowedExtensions)
            => uploadResult # "Invalid extension"
    /\ (UploadValidated /\ ClaimEndsWithDotOrEmpty(uploadFile.name)) =>
            uploadResult = IF uploadFile.size > ClaimMaxSize THEN "File too large"
                           ELSE IF uploadFile.size = 0 THEN "Empty file"
                           ELSE "Invalid extension"

\* A file named "JPG", with the type and the bytes of a JPEG, is accepted.
C28_Witness ==
    /\ uploadFile.name = Chars("JPG")
    /\ uploadFile.type = "image/jpeg"
    /\ uploadResult = "ok"

\* A file named "x." of three bytes is rejected for its extension.
C28_WitnessTrailingDot ==
    /\ uploadFile.name = Chars("x.")
    /\ uploadFile.size = 3
    /\ uploadResult = "Invalid extension"

-----------------------------------------------------------------------------
(* Safe Name Generator claims *)

SafeNameReturned == safeNames # <<>>

\* C13: the string generateSafeFilename returns is a single path component:
\* it contains no '/' and no backslash, no '..' and no null character.
C13_SafeNameIsSinglePathComponent ==
    SafeNameReturned =>
        /\ \A i \in 1..Len(safeName) : safeName[i] \notin {"/", "\\", NUL}
        /\ ~Includes(safeName, <<".", ".">>)

\* The length of an identifier.
ClaimIdLength == 36

\* The extension the claims give a stored name: the lower-cased text after
\* the last dot of the original name, bin when the name has no dot or nothing
\* after its last dot.
ClaimSafeExtension(name) ==
    IF ClaimHasExtension(name) /\ ClaimExtension(name) # <<>>
    THEN ClaimExtension(name) ELSE Chars("bin")

\* C14: generateSafeFilename returns <id>.<ext>, <id> being the identifier
\* the generator issued and <ext> the lower-cased extension of the original
\* name, bin when the original name has no extension (README).
C14_IdThenLowerCasedExtensionOrBin ==
    SafeNameReturned =>
        /\ Len(safeName) > ClaimIdLength
        /\ SubSeq(safeName, 1, ClaimIdLength) \in issuedUuids
        /\ safeName[ClaimIdLength + 1] = "."
        /\ From(safeName, ClaimIdLength + 2) = ClaimSafeExtension(originalName)

ClaimIdChars == Range(Chars("0123456789abcdef-"))

\* <36 lower-case hexadecimal digits and dashes>.jpg
ClaimIsIdDotJpg(name) ==
    /\ Len(name) = ClaimIdLength + 4
    /\ \A i \in 1..ClaimIdLength : name[i] \in ClaimIdChars
    /\ From(name, ClaimIdLength + 1) = Chars(".jpg")

\* C15: generateSafeFilename("my photo.JPG") returns 36 lower-case
\* hexadecimal digits and dashes followed by .jpg, and no two calls, on the
\* same or on different names, return the same string.
C15_FreshIdAndLowerCasedJpg ==
    /\ (SafeNameReturned /\ originalName = Chars("my photo.JPG")) => ClaimIsIdDotJpg(safeName)
    /\ \A i, j \in 1..Len(safeNames) : i # j => safeNames[i] # safeNames[j]

\* Two calls on "my photo.JPG" have returned.
C15_Witness ==
    /\ Len(safeNames) = 2
    /\ originalName = Chars("my photo.JPG")
    /\ ClaimIsIdDotJpg(safeNames[1])
    /\ ClaimIsIdDotJpg(safeNames[2])
    /\ safeNames[1] # safeNames[2]

-----------------------------------------------------------------------------
(* Filename Sanitizer claims *)

ClaimFilenameChars ==
    Range(Chars("ABCDEFGHIJKLMNOPQRSTUVWXYZabcdefghijklmnopqrstuvwxyz0123456789._-"))

\* C16: whatever the input, the string sanitizeFilename returns has only
\* characters of [A-Za-z0-9._-] and does not contain '..'.
C16_SanitizedHasNoDotDot ==
    sanitized =>
    /\ \A i \in 1..Len(safe) : safe[i] \in ClaimFilenameChars
    /\ ~Includes(safe, <<".", ".">>)

\* C16, the part about the characters alone.
C16_SanitizedHasOnlySafeChars ==
    sanitized => \A i \in 1..Len(safe) : safe[i] \in ClaimFilenameChars

\* C27: sanitizeFilename is idempotent: given the name it returned, it
\* returns that name again.
C27_SanitizeIsIdempotent ==
    sanitized => sanitizeFilename(safe) = safe

\* C27 for the names without a null byte, where it does hold.
C27_IdempotentWithoutNullBytes ==
    (sanitized /\ \A i \in 1..Len(filename) : filename[i] # NUL)
        => sanitizeFilename(safe) = safe

-----------------------------------------------------------------------------
(* Output Encoder claims *)

\* The character references an HTML decoder resolves that matter here: the
\* five of the claim, the numeric forms of the apostrophe, and the named ones
\* that are also resolved without their semicolon.
ClaimCharacterReferences ==
    {<<Chars("&amp;"), "&">>, <<Chars("&lt;"), "<">>, <<Chars("&gt;"), ">">>,
     <<Chars("&quot;"), "\"">>, <<Chars("&#039;"), "'">>, <<Chars("&#39;"), "'">>,
     <<Chars("&#x27;"), "'">>, <<Chars("&amp"), "&">>, <<Chars("&lt"), "<">>,
     <<Chars("&gt"), ">">>, <<Chars("&quot"), "\"">>}

\* The longest character reference s starts with, <<>> if it starts with none.
ClaimReferenceAt(s) ==
    LET here == {r \in ClaimCharacterReferences : StartsWith(s, r[1])} IN
    IF here = {} THEN <<>>
    ELSE CHOOSE r \in here : \A q \in here : Len(q[1]) <= Len(r[1])

\* One pass of an HTML decoder over s: what a reference resolves to is not
\* decoded again.
RECURSIVE ClaimHtmlDecode(_)
ClaimHtmlDecode(s) ==
    IF s = <<>> THEN <<>>
    ELSE IF ClaimReferenceAt(s) # <<>>
    THEN <<ClaimReferenceAt(s)[2]>> \o ClaimHtmlDecode(From(s, Len(ClaimReferenceAt(s)[1]) + 1))
    ELSE <<Head(s)>> \o ClaimHtmlDecode(Tail(s))

ClaimFiveEntities ==
    {Chars("&amp;"), Chars("&lt;"), Chars("&gt;"), Chars("&quot;"), Chars("&#039;")}

\* C17: escapeHtml(s) contains none of the raw characters < > " ', every &
\* in it starts one of &amp; &lt; &gt; &quot; &#039;, and decoding it gives
\* back s, also when s contains text that looks like an entity.
C17_EscapeHtmlDecodesBack ==
    encoder = "escapeHtml" =>
        /\ \A i \in 1..Len(encoded) : encoded[i] \notin {"<", ">", "\"", "'"}
        /\ \A i \in 1..Len(encoded) :
                encoded[i] = "&" => \E e \in ClaimFiveEntities : StartsWith(From(encoded, i), e)
        /\ ClaimHtmlDecode(encoded) = str

C17_Witness ==
    /\ encoder = "escapeHtml"
    /\ str = Chars("<script>alert('x')</script>")
    /\ encoded = Chars("&lt;script&gt;alert(&#039;x&#039;)&lt;/script&gt;")

\* An input that already holds an entity is escaped once more and decodes back.
C17_WitnessEntityLike ==
    /\ encoder = "escapeHtml"
    /\ str = Chars("&lt;")
    /\ encoded = Chars("&amp;lt;")

\* C18: every function of the Output Encoder returns for every string, the
\* empty string, control characters and unpaired surrogates included; none
\* throws.
C18_EveryEncoderIsTotal ==
    encoder # "none" => thrown = "none"

\* C18 for the four functions other than encodeUrlParam.
C18_TotalButEncodeUrlParam ==
    encoder \in {"escapeHtml", "sanitizeHtml", "escapeForJs", "escapeCss"} => thrown = "none"

\* LF, CR, U+2028 (and U+2029, which the model does not draw).
ClaimLineTerminators == {LF, CR, LS}

\* C19: what escapeForJs returns never contains </script, in any letter
\* case, nor a raw line terminator.
C19_JsLiteralCannotEndScript ==
    encoder = "escapeForJs" =>
        /\ ~Includes(ToLowerCase(encoded), Chars("</script"))
        /\ \A i \in 1..Len(encoded) : encoded[i] \notin ClaimLineTerminators

\* C19, the part about LF and CR alone, which JSON.stringify does escape.
C19_NoRawLfOrCr ==
    encoder = "escapeForJs" => \A i \in 1..Len(encoded) : encoded[i] \notin {LF, CR}

\* The k-th character of s is part of a tag: at or after a '<', not behind
\* the first '>' that follows that '<', and such a '>' exists.
ClaimInTag(s, k) ==
    \E i \in 1..k :
        /\ s[i] = "<"
        /\ \A m \in (i + 1)..(k - 1) : s[m] # ">"
        /\ \E j \in (i + 1)..Len(s) : j >= k /\ s[j] = ">"

\* The characters of s from the k-th on that are part of no tag, in order.
RECURSIVE ClaimOutsideTags(_, _)
ClaimOutsideTags(s, k) ==
    IF k > Len(s) THEN <<>>
    ELSE (IF ClaimInTag(s, k) THEN <<>> ELSE <<s[k]>>) \o ClaimOutsideTags(s, k + 1)

\* C20: without a window, what sanitizeHtml returns has no '<' with a '>'
\* somewhere after it, and is made of the characters of the input that are
\* outside the tags, all of them and in their order.
C20_ServerSideStripsEveryTag ==
    (encoder = "sanitizeHtml" /\ ~hasWindow) =>
        /\ ~\E i, j \in 1..Len(encoded) : i < j /\ encoded[i] = "<" /\ encoded[j] = ">"
        /\ encoded = ClaimOutsideTags(str, 1)

C20_Witness ==
    /\ encoder = "sanitizeHtml"
    /\ ~hasWindow
    /\ str = Chars("<scr<b>ipt>")
    /\ encoded = Chars("ipt>")

-----------------------------------------------------------------------------
(* Concurrency claims *)

\* What a request gets when it is processed alone: an error when session
\* verification threw, the login redirect for a protected path without user,
\* the landing redirect for an auth-only path with a user, else passthrough
\* carrying the cookies of its own last setAll.
ClaimAlone(req, result, log) ==
    IF result = "threw" THEN [kind |-> "error", location |-> <<>>, cookies |-> EmptyJar]
    ELSE IF ClaimProtected(req.pathname) /\ result # "user"
    THEN [kind |-> "redirect", location |-> LoginWithRedirect \o FormEncode(req.pathname),
          cookies |-> EmptyJar]
    ELSE IF ClaimAuthOnly(req.pathname) /\ result = "user"
    THEN [kind |-> "redirect", location |-> Chars("/dashboard"), cookies |-> EmptyJar]
    ELSE [kind |-> "next", location |-> <<>>,
          cookies |-> IF log = <<>> THEN EmptyJar ELSE SetCookies(EmptyJar, log[Len(log)])]

-----------------------------------------------------------------------------
(* Health endpoint claims *)

HealthAnswered == healthPc = "responded"

ClaimBothChecksOk == dbError = "null" /\ authError = "null" /\ caught = "none"

ClaimACheckReportedError ==
    /\ caught = "none"
    /\ dbError \notin {"null", "pending"} \/ authError \notin {"null", "pending"}

\* C22: GET /api/health answers 200 exactly when its body status is healthy,
\* which is exactly when both checks completed without error; a check that
\* reports an error gives 503 degraded, a step that throws gives 503
\* unhealthy, and no answer is 200 with a service flag false.
C22_HealthyIffBothChecksPass ==
    HealthAnswered =>
        /\ healthResponse.status = 200 <=> healthResponse.body.status = "healthy"
        /\ healthResponse.body.status = "healthy" <=> ClaimBothChecksOk
        /\ ClaimACheckReportedError =>
                healthResponse.status = 503 /\ healthResponse.body.status = "degraded"
        /\ caught # "none" =>
                healthResponse.status = 503 /\ healthResponse.body.status = "unhealthy"
        /\ healthResponse.status = 200 =>
                healthResponse.body.database /\ healthResponse.body.auth

\* The database answered, the auth service reported an error.
C22_Witness ==
    /\ HealthAnswered
    /\ dbError = "null"
    /\ authError = "AuthRetryableFetchError"
    /\ healthResponse.status = 503
    /\ healthResponse.body.status = "degraded"
    /\ healthResponse.body.database
    /\ ~healthResponse.body.auth

-----------------------------------------------------------------------------
(* User hook claims *)

HookSettled == hookPc = "settled"

\* C23: when a profile update settles after the service reported success,
\* exactly the keys ["users", userId] of the updated user and ["users"] have
\* been invalidated; when the service reported failure the mutation is in
\* error and nothing has been invalidated; nothing is invalidated before.
C23_InvalidatesOnSuccessOnly ==
    hook = "useUpdateUser" =>
        /\ (HookSettled /\ reply.error = "null") =>
                /\ query.status = "success"
                /\ invalidated = {<<"users", variables.userId>>, <<"users">>}
        /\ (HookSettled /\ reply.error # "null") =>
                /\ query.status = "error"
                /\ invalidated = {}
        /\ ~HookSettled => invalidated = {}

C23_Witness ==
    /\ hook = "useUpdateUser"
    /\ HookSettled
    /\ variables.userId = "u2"
    /\ reply.error = "null"
    /\ <<"users", "u2">> \in invalidated
    /\ <<"users">> \in invalidated

ServiceReturned == hookPc \in {"returned", "settled"}

C30_WitnessDisabled ==
    /\ hook = "useUser"
    /\ variables.userId = ""
    /\ fetchCount = 0

\* useUsers ended in success after a failed attempt was retried.
C30_WitnessRetried ==
    /\ hook = "useUsers"
    /\ HookSettled
    /\ failureCount = 1
    /\ query.status = "success"

====
